---- MODULE Spec2Model ----
(***************************************************************************)
(* Powers-of-tau ceremony (small-powers-of-tau): the SRS, its update, the  *)
(* update-proof chain and the verification of a sequence of updates.       *)
(*                                                                         *)
(* Group model.  G1, G2 and GT are cyclic groups of the same prime order   *)
(* r.  A point k*g1 (resp. k*g2) is represented by its scalar k in Fr, the *)
(* identity by 0, and the pairing e(a*g1, b*g2) = e(g1,g2)^(a*b) by the    *)
(* exponent a*b mod r.  FrModulus is a small prime standing for the        *)
(* 255-bit order of BLS12-381's scalar field.                              *)
(*                                                                         *)
(* Rust vectors are 0-based, TLA+ sequences 1-based: the code's v[i] is    *)
(* v[i + 1] here.                                                          *)
(***************************************************************************)
EXTENDS Integers, Sequences, FiniteSets, TLC

VARIABLES before, srs, prev, secrets, update_proofs, last

vars == <<before, srs, prev, secrets, update_proofs, last>>

\* ------------------------------------------------------------ bounds
MaxTampered == 1
MaxG1 == 3
MaxG2 == 3
MaxUpdates == 3
MaxChain == 4
MaxVecPoints == 6
MaxJsonPoints == 3
MaxJsonParams == 2
MaxForeignPoints == 2
MaxLinks == 2

\* ------------------------------------------------- field and groups
FrModulus == 5

Fr == 0 .. (FrModulus - 1)

fr_mul(a, b) == (a * b) % FrModulus

\* Field::pow: x^e, with x^0 = 1 for every x (0 included).
RECURSIVE fr_pow(_, _)
fr_pow(x, e) == IF e = 0 THEN 1 ELSE fr_mul(x, fr_pow(x, e - 1))

G1Gen == 1
G2Gen == 1
Identity == 0

is_zero(p) == p = Identity

\* ProjectiveCurve::mul / WnafContext::mul: scalar * point.
wnaf_mul(p, scalar) == (p * scalar) % FrModulus

point_add(p, q) == (p + q) % FrModulus

\* Bls12_381::pairing(p, q), as the exponent of e(g1, g2).
pairing(p, q) == (p * q) % FrModulus

Max(a, b) == IF a >= b THEN a ELSE b
Min(a, b) == IF a <= b THEN a ELSE b

\* ------------------------------------------------------- results
\* A call either returns a boolean or aborts (a Rust panic).
Ok(b) == [abort |-> FALSE, val |-> b]
Abort == [abort |-> TRUE, val |-> FALSE]

\* ------------------------------------------------------- keypair
\* PrivateKey::to_public: tau * g2.
to_public(tau) == wnaf_mul(G2Gen, tau)

\* ------------------------------------------------------------ SRS
\* SRS::from_vectors: absent (<<>> here is never a valid SRS record) unless
\* both vectors hold more than one element.
NoSRS == [tau_g1 |-> <<>>, tau_g2 |-> <<>>]
from_vectors(g1s, g2s) ==
    IF ~(Len(g1s) > 1 /\ Len(g2s) > 1)
    THEN [some |-> FALSE, srs |-> NoSRS]
    ELSE [some |-> TRUE, srs |-> [tau_g1 |-> g1s, tau_g2 |-> g2s]]

\* SRS::new: every element is the generator.
new(num_g1, num_g2) ==
    from_vectors([i \in 1 .. num_g1 |-> G1Gen], [i \in 1 .. num_g2 |-> G2Gen])

\* Mutant: the powers start at x^0, [1, x, ..., x^(n-1)].
vandemonde_challenge_from_one(x, n) ==
    LET challenges[i \in 1 .. n] ==
            IF i = 1 THEN 1 ELSE fr_mul(challenges[i - 1], x)
    IN  [i \in 1 .. n |-> challenges[i]]

\* vandemonde_challenge(x, n) = [x, x^2, ..., x^n], built by repeated
\* multiplication (n >= 1).
vandemonde_challenge(x, n) ==
    LET challenges[i \in 1 .. n] ==
            IF i = 1 THEN x ELSE fr_mul(challenges[i - 1], x)
    IN  [i \in 1 .. n |-> challenges[i]]

\* Mutant: the degree-0 element is not skipped, element i takes the power i+1.
update_srs_no_skip(s, private_key) ==
    LET max_number_elements == Max(Len(s.tau_g1), Len(s.tau_g2))
        powers_of_priv_key == vandemonde_challenge(private_key, max_number_elements - 1)
        upd(v) == [i \in 1 .. Len(v) |->
                     IF i > Len(powers_of_priv_key)
                     THEN v[i]
                     ELSE wnaf_mul(v[i], powers_of_priv_key[i])]
    IN  [tau_g1 |-> upd(s.tau_g1), tau_g2 |-> upd(s.tau_g2)]

\* Mutant: the powers are built by addition, [x, 2x, 3x, ...].
update_srs_additive(s, private_key) ==
    LET upd(v) == [i \in 1 .. Len(v) |->
                     IF i = 1 THEN v[i]
                     ELSE wnaf_mul(v[i], ((i - 1) * private_key) % FrModulus)]
    IN  [tau_g1 |-> upd(s.tau_g1), tau_g2 |-> upd(s.tau_g2)]

\* Mutant: the loop over tau_g2 is missing.
update_srs_g1_only(s, private_key) ==
    LET max_number_elements == Max(Len(s.tau_g1), Len(s.tau_g2))
        powers_of_priv_key == vandemonde_challenge(private_key, max_number_elements - 1)
        upd(v) == [i \in 1 .. Len(v) |->
                     IF i = 1 \/ i - 1 > Len(powers_of_priv_key)
                     THEN v[i]
                     ELSE wnaf_mul(v[i], powers_of_priv_key[i - 1])]
    IN  [tau_g1 |-> upd(s.tau_g1), tau_g2 |-> s.tau_g2]

\* SRS::update_srs: skip the degree-0 element, zip the rest with the powers
\* of the private key.
update_srs(s, private_key) ==
    LET max_number_elements == Max(Len(s.tau_g1), Len(s.tau_g2))
        powers_of_priv_key == vandemonde_challenge(private_key, max_number_elements - 1)
        upd(v) == [i \in 1 .. Len(v) |->
                     IF i = 1 \/ i - 1 > Len(powers_of_priv_key)
                     THEN v[i]
                     ELSE wnaf_mul(v[i], powers_of_priv_key[i - 1])]
    IN  [tau_g1 |-> upd(s.tau_g1), tau_g2 |-> upd(s.tau_g2)]

\* Mutant: the proof carries the degree-1 element read before the update.
update_stale_point(s, tau) ==
    [srs |-> update_srs(s, tau),
     proof |-> [commitment_to_secret |-> to_public(tau),
                new_accumulated_point |-> s.tau_g1[2]]]

\* SRS::update: the updated SRS and the proof of the update.
update(s, tau) ==
    LET updated == update_srs(s, tau)
    IN  [srs |-> updated,
         proof |-> [commitment_to_secret |-> to_public(tau),
                    new_accumulated_point |-> updated.tau_g1[2]]]

\* Accumulator::update_accumulator: element i is multiplied by
\* private_key^i, the exponent i being first converted to a field element.
update_accumulator(s, private_key) ==
    LET upd(v) == [i \in 1 .. Len(v) |->
                     wnaf_mul(v[i], fr_pow(private_key, (i - 1) % FrModulus))]
    IN  [tau_g1 |-> upd(s.tau_g1), tau_g2 |-> upd(s.tau_g2)]

\* ------------------------------------------------ base fields
\* The encodings are scaled down.  The base field Fq is the integers modulo
\* FqModulus; its quadratic extension Fq2 is Fq[u] / (u^2 - Fq2NonResidue),
\* an element c0 + c1 * u being the record [c0, c1].  G1 is the subgroup of
\* order FrModulus of the curve y^2 = x^3 + CurveB over Fq (30 points), G2
\* the one generated by G2AffineGenerator on y^2 = x^3 + CurveB2 over Fq2
\* (900 points).  An encoded G1 point is one byte, the three flag bits
\* followed by the five bits of x; an encoded G2 point is two bytes, the flag
\* bits and x.c1, then x.c0 (the code's 48 and 96 bytes).
FqModulus == 29
CurveB == 4
G1_SERIALISED_SIZE == 1
G2_SERIALISED_SIZE == 2
Fq2NonResidue == 2

Fq == 0 .. (FqModulus - 1)

fq_neg(a) == (FqModulus - a) % FqModulus

fq_inv(a) == CHOOSE b \in Fq : (a * b) % FqModulus = 1

Fq2 == [c0 : Fq, c1 : Fq]

\* Fp2::new(c0, c1)
Fp2_new(c0, c1) == [c0 |-> c0, c1 |-> c1]

Fq2Zero == Fp2_new(0, 0)
Fq2One == Fp2_new(1, 0)
CurveB2 == Fp2_new(4, 4)

fq2_add(a, b) == Fp2_new((a.c0 + b.c0) % FqModulus, (a.c1 + b.c1) % FqModulus)

fq2_neg(a) == Fp2_new(fq_neg(a.c0), fq_neg(a.c1))

fq2_sub(a, b) == fq2_add(a, fq2_neg(b))

fq2_mul(a, b) ==
    Fp2_new((a.c0 * b.c0 + Fq2NonResidue * a.c1 * b.c1) % FqModulus,
            (a.c0 * b.c1 + a.c1 * b.c0) % FqModulus)

fq2_inv(a) == CHOOSE b \in Fq2 : fq2_mul(a, b) = Fq2One

\* The order of QuadExtField: c1 is compared first, then c0.
fq2_lt(a, b) == a.c1 < b.c1 \/ (a.c1 = b.c1 /\ a.c0 < b.c0)

\* ------------------------------------------------ curve points
\* G1Affine::default() / G1Affine::zero(): the point at infinity, (0, 1, true).
G1AffineDefault == [infinity |-> TRUE, x |-> 0, y |-> 1]

G2AffineDefault == [infinity |-> TRUE, x |-> Fq2Zero, y |-> Fq2One]

\* G1Affine::prime_subgroup_generator() and its G2 counterpart.
G1AffineGenerator == [infinity |-> FALSE, x |-> 7, y |-> 12]

G2AffineGenerator ==
    [infinity |-> FALSE, x |-> Fp2_new(5, 3), y |-> Fp2_new(13, 12)]

\* The affine points of the two curves (the identity apart).
G1CurvePoints ==
    {[infinity |-> FALSE, x |-> x, y |-> y] : <<x, y>> \in
        {xy \in Fq \X Fq :
            (xy[2] * xy[2]) % FqModulus
                = (xy[1] * xy[1] * xy[1] + CurveB) % FqModulus}}

Fq2Squares == [y \in Fq2 |-> fq2_mul(y, y)]

Fq2Roots(a) == {y \in Fq2 : Fq2Squares[y] = a}

G2CurvePoints ==
    UNION {{[infinity |-> FALSE, x |-> x, y |-> y] :
               y \in Fq2Roots(fq2_add(fq2_mul(fq2_mul(x, x), x), CurveB2))} :
           x \in Fq2}

\* Addition of affine points of the G1 curve.
g1_add(P, Q) ==
    IF P.infinity THEN Q
    ELSE IF Q.infinity THEN P
    ELSE IF P.x = Q.x /\ (P.y + Q.y) % FqModulus = 0 THEN G1AffineDefault
    ELSE LET l == IF P = Q
                  THEN (3 * P.x * P.x * fq_inv((2 * P.y) % FqModulus)) % FqModulus
                  ELSE ((Q.y + fq_neg(P.y))
                            * fq_inv((Q.x + fq_neg(P.x)) % FqModulus)) % FqModulus
             x == (l * l + fq_neg(P.x) + fq_neg(Q.x)) % FqModulus
         IN  [infinity |-> FALSE, x |-> x,
              y |-> (l * ((P.x + fq_neg(x)) % FqModulus) + fq_neg(P.y)) % FqModulus]

RECURSIVE g1_mul(_, _)
g1_mul(P, k) == IF k = 0 THEN G1AffineDefault ELSE g1_add(g1_mul(P, k - 1), P)

\* Addition of affine points of the G2 curve.
g2_add(P, Q) ==
    IF P.infinity THEN Q
    ELSE IF Q.infinity THEN P
    ELSE IF P.x = Q.x /\ fq2_add(P.y, Q.y) = Fq2Zero THEN G2AffineDefault
    ELSE LET three == Fp2_new(3, 0)
             two == Fp2_new(2, 0)
             l == IF P = Q
                  THEN fq2_mul(fq2_mul(three, fq2_mul(P.x, P.x)),
                               fq2_inv(fq2_mul(two, P.y)))
                  ELSE fq2_mul(fq2_sub(Q.y, P.y), fq2_inv(fq2_sub(Q.x, P.x)))
             x == fq2_sub(fq2_sub(fq2_mul(l, l), P.x), Q.x)
         IN  [infinity |-> FALSE, x |-> x,
              y |-> fq2_sub(fq2_mul(l, fq2_sub(P.x, x)), P.y)]

RECURSIVE g2_mul(_, _)
g2_mul(P, k) == IF k = 0 THEN G2AffineDefault ELSE g2_add(g2_mul(P, k - 1), P)

\* The affine coordinates of the subgroup elements, k * generator.
G1Table == [k \in Fr |-> g1_mul(G1AffineGenerator, k)]

G2Table == [k \in Fr |-> g2_mul(G2AffineGenerator, k)]

\* ProjectiveCurve::into_affine (batch_normalization_into_affine does it for
\* each element).
g1_into_affine(k) ==
    IF k \in Fr THEN G1Table[k]
    ELSE [infinity |-> FALSE, x |-> (k - FrModulus) \div FqModulus,
          y |-> (k - FrModulus) % FqModulus]

g2_into_affine(k) ==
    IF k \in Fr THEN G2Table[k]
    ELSE LET n == k - FrModulus
             q == FqModulus
         IN  [infinity |-> FALSE,
              x |-> Fp2_new(n \div (q * q * q), (n \div (q * q)) % q),
              y |-> Fp2_new((n \div q) % q, n % q)]

\* AffineCurve::into_projective.  A point of the subgroup is its scalar, the
\* identity whatever coordinates come with the infinity flag; a curve point
\* outside the subgroup is named by a number outside Fr made of its
\* coordinates.
g1_into_projective(P) ==
    IF P.infinity THEN Identity
    ELSE IF \E k \in Fr : G1Table[k] = P THEN CHOOSE k \in Fr : G1Table[k] = P
    ELSE FrModulus + P.x * FqModulus + P.y

g2_into_projective(P) ==
    IF P.infinity THEN Identity
    ELSE IF \E k \in Fr : G2Table[k] = P THEN CHOOSE k \in Fr : G2Table[k] = P
    ELSE FrModulus
             + ((P.x.c0 * FqModulus + P.x.c1) * FqModulus + P.y.c0) * FqModulus
             + P.y.c1

\* ------------------------------------------------ point codec
\* An absent or present result (Option), or a panic while computing it.
Some(v) == [abort |-> FALSE, some |-> TRUE, val |-> v]
None == [abort |-> FALSE, some |-> FALSE, val |-> <<>>]
Panic == [abort |-> TRUE, some |-> FALSE, val |-> <<>>]

\* b |= mask, for a mask of one bit.
bit_or(b, mask) == IF (b \div mask) % 2 = 1 THEN b ELSE b + mask

\* EncodingFlags::get_flags: bits 7, 6 and 5 of the first byte.
get_flags(bytes) ==
    [is_compressed |-> (bytes[1] \div 128) % 2 = 1,
     is_infinity |-> (bytes[1] \div 64) % 2 = 1,
     is_lexographically_largest |-> (bytes[1] \div 32) % 2 = 1]

\* Mutant: the infinity flag is not written.
encode_flags_without_infinity(flags, bytes) ==
    LET b1 == IF flags.is_compressed THEN bit_or(bytes[1], 128) ELSE bytes[1]
        b3 == IF flags.is_compressed /\ ~flags.is_infinity
                 /\ flags.is_lexographically_largest
              THEN bit_or(b1, 32) ELSE b1
    IN  [bytes EXCEPT ![1] = b3]

\* EncodingFlags::encode_flags
encode_flags(flags, bytes) ==
    LET b1 == IF flags.is_compressed THEN bit_or(bytes[1], 128) ELSE bytes[1]
        b2 == IF flags.is_infinity THEN bit_or(b1, 64) ELSE b1
        b3 == IF flags.is_compressed /\ ~flags.is_infinity
                 /\ flags.is_lexographically_largest
              THEN bit_or(b2, 32) ELSE b2
    IN  [bytes EXCEPT ![1] = b3]

\* serialise_fq: the big-endian bytes of the field element.
serialise_fq(field) == <<field>>

\* deserialise_fq: Fq::from_repr(tmp).unwrap() aborts when the integer is not
\* below the modulus.
deserialise_fq(tmp) ==
    IF tmp >= FqModulus THEN Abort ELSE Ok(tmp)

serialize_g1_x(p) == serialise_fq(p.x)

\* Mutant: c0 is written before c1.
serialize_g2_x_c0_first(p) == serialise_fq(p.x.c0) \o serialise_fq(p.x.c1)

\* serialize_g2_x: c1, then c0.
serialize_g2_x(p) == serialise_fq(p.x.c1) \o serialise_fq(p.x.c0)

\* serialize_g1
serialize_g1(p) ==
    encode_flags([is_compressed |-> TRUE,
                  is_infinity |-> p.infinity,
                  is_lexographically_largest |-> p.y > fq_neg(p.y)],
                 serialize_g1_x(p))

\* serialize_g2
serialize_g2(p) ==
    encode_flags([is_compressed |-> TRUE,
                  is_infinity |-> p.infinity,
                  is_lexographically_largest |-> fq2_lt(fq2_neg(p.y), p.y)],
                 serialize_g2_x(p))

\* GroupAffine::get_point_from_x: absent when x^3 + b has no square root,
\* otherwise the point whose y is the larger of y, -y iff `greatest`.
get_point_from_x(x, greatest) ==
    LET x3b == (x * x * x + CurveB) % FqModulus
        roots == {y \in Fq : (y * y) % FqModulus = x3b}
        y == CHOOSE r \in roots : TRUE
        negy == fq_neg(y)
    IN  IF roots = {} THEN [some |-> FALSE, point |-> G1AffineDefault]
        ELSE [some |-> TRUE,
              point |-> [infinity |-> FALSE, x |-> x,
                         y |-> IF (y < negy) # greatest THEN y ELSE negy]]

\* The same over Fq2, for G2Affine.
g2_get_point_from_x(x, greatest) ==
    LET x3b == fq2_add(fq2_mul(fq2_mul(x, x), x), CurveB2)
        roots == Fq2Roots(x3b)
        y == CHOOSE r \in roots : TRUE
        negy == fq2_neg(y)
    IN  IF roots = {} THEN [some |-> FALSE, point |-> G2AffineDefault]
        ELSE [some |-> TRUE,
              point |-> [infinity |-> FALSE, x |-> x,
                         y |-> IF fq2_lt(y, negy) # greatest THEN y ELSE negy]]

\* deserialize_g1: the flags, then x with the flag bits masked away, then
\* the point with that x; the unwraps and unimplemented!() abort.
deserialize_g1(bytes) ==
    LET flags == get_flags(bytes)
        x == deserialise_fq(bytes[1] % 32)
        p == get_point_from_x(x.val, flags.is_lexographically_largest)
    IN  IF ~flags.is_compressed THEN Abort
        ELSE IF flags.is_infinity THEN Ok(G1AffineDefault)
        ELSE IF x.abort THEN Abort
        ELSE IF ~p.some THEN Abort
        ELSE Ok(p.point)

\* deserialize_g2: the infinity flag is looked at before the compression
\* flag; x.c1 comes from the first half (flag bits masked away), x.c0 from
\* the second.
deserialize_g2(bytes) ==
    LET flags == get_flags(bytes)
        xc1 == deserialise_fq(bytes[1] % 32)
        xc0 == deserialise_fq(bytes[2])
        p == g2_get_point_from_x(Fp2_new(xc0.val, xc1.val),
                                 flags.is_lexographically_largest)
    IN  IF flags.is_infinity THEN Ok(G2AffineDefault)
        ELSE IF ~flags.is_compressed THEN Abort
        ELSE IF xc1.abort THEN Abort
        ELSE IF xc0.abort THEN Abort
        ELSE IF ~p.some THEN Abort
        ELSE Ok(p.point)

\* ------------------------------------------------ hex strings
\* A string is the sequence of its characters.
HexDigits ==
    <<"0", "1", "2", "3", "4", "5", "6", "7", "8", "9", "a", "b", "c", "d", "e", "f">>

UpperHexDigits == <<"A", "B", "C", "D", "E", "F">>

\* The value of a hex digit of either case, -1 for any other character.
hex_val(c) ==
    IF \E i \in 1 .. 16 : HexDigits[i] = c
    THEN (CHOOSE i \in 1 .. 16 : HexDigits[i] = c) - 1
    ELSE IF \E i \in 1 .. 6 : UpperHexDigits[i] = c
    THEN (CHOOSE i \in 1 .. 6 : UpperHexDigits[i] = c) + 9
    ELSE -1

\* hex::encode: two lower-case digits per byte.
hex_encode(bytes) ==
    [i \in 1 .. 2 * Len(bytes) |->
        IF i % 2 = 1 THEN HexDigits[(bytes[(i + 1) \div 2] \div 16) + 1]
        ELSE HexDigits[(bytes[i \div 2] % 16) + 1]]

\* hex::decode(..).ok(): absent on an odd length or a character that is no
\* hex digit.
hex_decode(chars) ==
    IF Len(chars) % 2 = 1 THEN None
    ELSE IF \E i \in 1 .. Len(chars) : hex_val(chars[i]) = -1 THEN None
    ELSE Some([i \in 1 .. Len(chars) \div 2 |->
                  16 * hex_val(chars[2 * i - 1]) + hex_val(chars[2 * i])])

\* str::strip_prefix("0x")
strip_prefix(chars) ==
    IF Len(chars) >= 2 /\ chars[1] = "0" /\ chars[2] = "x"
    THEN Some(SubSeq(chars, 3, Len(chars)))
    ELSE None

\* String::insert_str(0, "0x")
insert_prefix(chars) == <<"0", "x">> \o chars

\* ------------------------------------------------ serialisation
\* hex_string_to_g1: prefix, hex digits, byte length, then the decoder.
hex_string_to_g1(hex_str) ==
    LET stripped == strip_prefix(hex_str)
        bytes == hex_decode(stripped.val)
        point == deserialize_g1(bytes.val)
    IN  IF ~stripped.some THEN None
        ELSE IF ~bytes.some THEN None
        ELSE IF Len(bytes.val) # G1_SERIALISED_SIZE THEN None
        ELSE IF point.abort THEN Panic
        ELSE Some(g1_into_projective(point.val))

\* hex_string_to_g2
hex_string_to_g2(hex_str) ==
    LET stripped == strip_prefix(hex_str)
        bytes == hex_decode(stripped.val)
        point == deserialize_g2(bytes.val)
    IN  IF ~stripped.some THEN None
        ELSE IF ~bytes.some THEN None
        ELSE IF Len(bytes.val) # G2_SERIALISED_SIZE THEN None
        ELSE IF point.abort THEN Panic
        ELSE Some(g2_into_projective(point.val))

\* The loops of SRS::from_json_array: the first string that does not give a
\* point ends the call.
RECURSIVE g1_points_from_json(_)
g1_points_from_json(strs) ==
    IF strs = <<>> THEN Some(<<>>)
    ELSE LET h == hex_string_to_g1(Head(strs))
             t == g1_points_from_json(Tail(strs))
         IN  IF ~h.some THEN h
             ELSE IF ~t.some THEN t
             ELSE Some(<<h.val>> \o t.val)

RECURSIVE g2_points_from_json(_)
g2_points_from_json(strs) ==
    IF strs = <<>> THEN Some(<<>>)
    ELSE LET h == hex_string_to_g2(Head(strs))
             t == g2_points_from_json(Tail(strs))
         IN  IF ~h.some THEN h
             ELSE IF ~t.some THEN t
             ELSE Some(<<h.val>> \o t.val)

\* Parameters::new
Parameters_new(num_g1, num_g2) ==
    [num_g1_elements_needed |-> num_g1, num_g2_elements_needed |-> num_g2]

\* SRS::to_json_array
to_json_array(s) ==
    [g1 |-> [i \in 1 .. Len(s.tau_g1) |->
                insert_prefix(hex_encode(serialize_g1(g1_into_affine(s.tau_g1[i]))))],
     g2 |-> [i \in 1 .. Len(s.tau_g2) |->
                insert_prefix(hex_encode(serialize_g2(g2_into_affine(s.tau_g2[i]))))]]

\* SRS::from_json_array: the G1 strings, the G2 strings, then the two counts.
from_json_array(json_array, parameters) ==
    LET g1 == g1_points_from_json(json_array.g1)
        g2 == g2_points_from_json(json_array.g2)
    IN  IF ~g1.some THEN g1
        ELSE IF ~g2.some THEN g2
        ELSE IF Len(g1.val) # parameters.num_g1_elements_needed THEN None
        ELSE IF Len(g2.val) # parameters.num_g2_elements_needed THEN None
        ELSE Some([tau_g1 |-> g1.val, tau_g2 |-> g2.val])

\* SRS::serialise and SRS::deserialise
serialise(s) == to_json_array(s)

deserialise(json_arr, parameters) == from_json_array(json_arr, parameters)

\* ------------------------------------------- SharedSecretChain
\* SharedSecretChain::starting_from
starting_from(starting_point) ==
    [accumulated_points |-> <<starting_point>>, witnesses |-> <<>>]

\* Mutant: the witness is not pushed.
extend_without_witness(chain, new_accumulated_point, witness) ==
    [accumulated_points |-> Append(chain.accumulated_points, new_accumulated_point),
     witnesses |-> chain.witnesses]

\* SharedSecretChain::extend
extend(chain, new_accumulated_point, witness) ==
    [accumulated_points |-> Append(chain.accumulated_points, new_accumulated_point),
     witnesses |-> Append(chain.witnesses, witness)]

\* SharedSecretChain::remove_last
remove_last(chain) ==
    [accumulated_points |->
         SubSeq(chain.accumulated_points, 1, Len(chain.accumulated_points) - 1),
     witnesses |-> SubSeq(chain.witnesses, 1, Len(chain.witnesses) - 1)]

\* Mutant: only the last pair of accumulated points is checked.
chain_verify_last_pair(chain) ==
    LET n == Min(Len(chain.accumulated_points) - 1, Len(chain.witnesses))
    IN  n >= 1 =>
            pairing(chain.accumulated_points[n + 1], G2Gen)
                = pairing(chain.accumulated_points[n], chain.witnesses[n])

\* SharedSecretChain::verify: the overlapping pairs of accumulated points
\* zipped with the witnesses; every pair must satisfy
\* pairing(next, g2) = pairing(prev, witness).
chain_verify(chain) ==
    \A k \in 1 .. Min(Len(chain.accumulated_points) - 1, Len(chain.witnesses)) :
        pairing(chain.accumulated_points[k + 1], G2Gen)
            = pairing(chain.accumulated_points[k], chain.witnesses[k])

\* ------------------------------------------------- UpdateProof
RECURSIVE extend_all(_, _)
extend_all(chain, proofs) ==
    IF proofs = <<>> THEN chain
    ELSE extend_all(extend(chain, Head(proofs).new_accumulated_point,
                           Head(proofs).commitment_to_secret),
                    Tail(proofs))

\* UpdateProof::verify_chain(starting_point, update_proofs), the two-argument
\* form SRS::verify_updates calls: an empty list violates the precondition
\* (assert!), otherwise the chain from starting_point through every proof's
\* (new_accumulated_point, commitment_to_secret) is verified.
verify_chain(starting_point, proofs) ==
    IF proofs = <<>> THEN Abort
    ELSE Ok(chain_verify(extend_all(starting_from(starting_point), proofs)))

\* ------------------------------------------- structure checks
\* VariableBaseMSM::multi_scalar_mul: sum of scalars[k] * bases[k] over the
\* common length of the two slices.
RECURSIVE msm_upto(_, _, _)
msm_upto(bases, scalars, k) ==
    IF k = 0 THEN Identity
    ELSE point_add(msm_upto(bases, scalars, k - 1), wnaf_mul(bases[k], scalars[k]))

multi_scalar_mul(bases, scalars) ==
    msm_upto(bases, scalars, Min(Len(bases), Len(scalars)))

\* Mutant: the two G1 commitments are paired with the wrong G2 elements.
structure_check_opt_swapped(s, random_element) ==
    IF random_element = 0 THEN FALSE
    ELSE
    LET len_g1 == Len(s.tau_g1)
        len_g2 == Len(s.tau_g2)
        rand_pow == vandemonde_challenge(random_element, Max(len_g1, len_g2) - 1)
        L1 == SubSeq(s.tau_g1, 1, len_g1 - 1)
        R1 == SubSeq(s.tau_g1, 2, len_g1)
        L2 == SubSeq(s.tau_g2, 1, len_g2 - 1)
        R2 == SubSeq(s.tau_g2, 2, len_g2)
    IN  IF pairing(multi_scalar_mul(L1, rand_pow), s.tau_g2[1])
              # pairing(multi_scalar_mul(R1, rand_pow), s.tau_g2[2])
        THEN FALSE
        ELSE pairing(s.tau_g1[2], multi_scalar_mul(L2, rand_pow))
                 = pairing(s.tau_g1[1], multi_scalar_mul(R2, rand_pow))

\* Mutant: the check of the G2 elements is missing.
structure_check_opt_g1_only(s, random_element) ==
    IF random_element = 0 THEN FALSE
    ELSE
    LET len_g1 == Len(s.tau_g1)
        len_g2 == Len(s.tau_g2)
        rand_pow == vandemonde_challenge(random_element, Max(len_g1, len_g2) - 1)
        L1 == SubSeq(s.tau_g1, 1, len_g1 - 1)
        R1 == SubSeq(s.tau_g1, 2, len_g1)
    IN  pairing(multi_scalar_mul(L1, rand_pow), s.tau_g2[2])
            = pairing(multi_scalar_mul(R1, rand_pow), s.tau_g2[1])

\* Mutant: the zero challenge is not refused.
structure_check_opt_accepts_zero(s, random_element) ==
    LET len_g1 == Len(s.tau_g1)
        len_g2 == Len(s.tau_g2)
        rand_pow == vandemonde_challenge(random_element, Max(len_g1, len_g2) - 1)
        L1 == SubSeq(s.tau_g1, 1, len_g1 - 1)
        R1 == SubSeq(s.tau_g1, 2, len_g1)
        L2 == SubSeq(s.tau_g2, 1, len_g2 - 1)
        R2 == SubSeq(s.tau_g2, 2, len_g2)
    IN  IF pairing(multi_scalar_mul(L1, rand_pow), s.tau_g2[2])
              # pairing(multi_scalar_mul(R1, rand_pow), s.tau_g2[1])
        THEN FALSE
        ELSE pairing(s.tau_g1[2], multi_scalar_mul(L2, rand_pow))
                 = pairing(s.tau_g1[1], multi_scalar_mul(R2, rand_pow))

\* SRS::structure_check_opt: the batched check, one pairing equation per group.
structure_check_opt(s, random_element) ==
    IF random_element = 0 THEN FALSE
    ELSE
    LET len_g1 == Len(s.tau_g1)
        len_g2 == Len(s.tau_g2)
        max_number_elements == Max(len_g1, len_g2)
        rand_pow == vandemonde_challenge(random_element, max_number_elements - 1)
        tau_g2_0 == s.tau_g2[1]
        tau_g2_1 == s.tau_g2[2]
        tau_g1_0 == s.tau_g1[1]
        tau_g1_1 == s.tau_g1[2]
        L1 == SubSeq(s.tau_g1, 1, len_g1 - 1)
        R1 == SubSeq(s.tau_g1, 2, len_g1)
        L2 == SubSeq(s.tau_g2, 1, len_g2 - 1)
        R2 == SubSeq(s.tau_g2, 2, len_g2)
    IN  IF pairing(multi_scalar_mul(L1, rand_pow), tau_g2_1)
              # pairing(multi_scalar_mul(R1, rand_pow), tau_g2_0)
        THEN FALSE
        ELSE pairing(tau_g1_1, multi_scalar_mul(L2, rand_pow))
                 = pairing(tau_g1_0, multi_scalar_mul(R2, rand_pow))

\* SRS::structure_check: the pairwise check over the windows of two.
structure_check(s) ==
    LET tau_g2_0 == s.tau_g2[1]
        tau_g2_1 == s.tau_g2[2]
        tau_g1_0 == s.tau_g1[1]
        tau_g1_1 == s.tau_g1[2]
    IN  /\ \A i \in 1 .. Len(s.tau_g1) - 1 :
               pairing(s.tau_g1[i + 1], tau_g2_0) = pairing(s.tau_g1[i], tau_g2_1)
        /\ \A i \in 1 .. Len(s.tau_g2) - 1 :
               pairing(tau_g1_0, s.tau_g2[i + 1]) = pairing(tau_g1_1, s.tau_g2[i])

\* ------------------------------------------------ verification
\* Mutant: the last proof's point is not compared with the ending SRS.
verify_updates_no_end_check(b, a, proofs, random_element) ==
    IF proofs = <<>> THEN Ok(FALSE)
    ELSE IF verify_chain(b.tau_g1[2], proofs).abort THEN Abort
    ELSE IF ~verify_chain(b.tau_g1[2], proofs).val THEN Ok(FALSE)
    ELSE IF is_zero(a.tau_g1[2]) THEN Ok(FALSE)
    ELSE IF is_zero(a.tau_g2[2]) THEN Ok(FALSE)
    ELSE IF ~structure_check_opt(a, random_element) THEN Ok(FALSE)
    ELSE Ok(TRUE)

\* Mutant: the degree-1 elements are not checked against the identity.
verify_updates_no_zero_check(b, a, proofs, random_element) ==
    IF proofs = <<>> THEN Ok(FALSE)
    ELSE IF a.tau_g1[2] # proofs[Len(proofs)].new_accumulated_point THEN Ok(FALSE)
    ELSE IF ~verify_chain(b.tau_g1[2], proofs).val THEN Ok(FALSE)
    ELSE IF ~structure_check_opt(a, random_element) THEN Ok(FALSE)
    ELSE Ok(TRUE)

\* Mutant: the empty proof list is not turned away before the chain is verified.
verify_updates_no_empty_check(b, a, proofs, random_element) ==
    IF proofs # <<>> /\ a.tau_g1[2] # proofs[Len(proofs)].new_accumulated_point
    THEN Ok(FALSE)
    ELSE IF verify_chain(b.tau_g1[2], proofs).abort THEN Abort
    ELSE IF ~verify_chain(b.tau_g1[2], proofs).val THEN Ok(FALSE)
    ELSE IF is_zero(a.tau_g1[2]) THEN Ok(FALSE)
    ELSE IF is_zero(a.tau_g2[2]) THEN Ok(FALSE)
    ELSE IF ~structure_check_opt(a, random_element) THEN Ok(FALSE)
    ELSE Ok(TRUE)

\* SRS::verify_updates.  Indexing element 1 of a vector shorter than two
\* elements is an out-of-bounds panic.
verify_updates(b, a, proofs, random_element) ==
    IF proofs = <<>> THEN Ok(FALSE)
    ELSE IF Len(a.tau_g1) < 2 THEN Abort
    ELSE IF a.tau_g1[2] # proofs[Len(proofs)].new_accumulated_point THEN Ok(FALSE)
    ELSE IF Len(b.tau_g1) < 2 THEN Abort
    ELSE IF verify_chain(b.tau_g1[2], proofs).abort THEN Abort
    ELSE IF ~verify_chain(b.tau_g1[2], proofs).val THEN Ok(FALSE)
    ELSE IF is_zero(a.tau_g1[2]) THEN Ok(FALSE)
    ELSE IF Len(a.tau_g2) < 2 THEN Abort
    ELSE IF is_zero(a.tau_g2[2]) THEN Ok(FALSE)
    ELSE IF ~structure_check_opt(a, random_element) THEN Ok(FALSE)
    ELSE Ok(TRUE)

\* SRS::verify_update: a single proof.
verify_update(b, a, update_proof, random_element) ==
    verify_updates(b, a, <<update_proof>>, random_element)

\* ------------------------------------------------ subgroup checks
\* g1::is_in_correct_subgroup_assuming_on_curve and its G2 counterpart.  The
\* endomorphism tests decide whether the point is in the prime-order
\* subgroup; here the answer is computed from the multiples of the
\* generator.
g1_is_in_correct_subgroup_assuming_on_curve(p) ==
    p.infinity \/ \E k \in Fr : G1Table[k] = p

g2_is_in_correct_subgroup_assuming_on_curve(point) ==
    point.infinity \/ \E k \in Fr : G2Table[k] = point

\* Mutant: only the G1 elements are checked.
subgroup_check_g1_only(s) ==
    \A i \in 1 .. Len(s.tau_g1) :
        g1_is_in_correct_subgroup_assuming_on_curve(g1_into_affine(s.tau_g1[i]))

\* SRS::subgroup_check: every G1 element, then every G2 element.
subgroup_check(s) ==
    LET g1_points_affine == [i \in 1 .. Len(s.tau_g1) |-> g1_into_affine(s.tau_g1[i])]
        g2_points_affine == [i \in 1 .. Len(s.tau_g2) |-> g2_into_affine(s.tau_g2[i])]
    IN  IF \E i \in 1 .. Len(g1_points_affine) :
               ~g1_is_in_correct_subgroup_assuming_on_curve(g1_points_affine[i])
        THEN FALSE
        ELSE IF \E i \in 1 .. Len(g2_points_affine) :
               ~g2_is_in_correct_subgroup_assuming_on_curve(g2_points_affine[i])
        THEN FALSE
        ELSE TRUE

\* ------------------------------------------------ parallel update
\* Mutant: the worker reads the element before its own.
worker_reads_neighbour(v, i) == v[i - 1]

\* The closure of the two for_each loops of update_srs, run by one worker for
\* one element: the worker reads the element it was given
worker_reads(v, i) == v[i]

\* and writes the product with its power into the same element.
worker_writes(v, i, tg, priv_pow) == [v EXCEPT ![i] = wnaf_mul(tg, priv_pow)]

\* .skip(1).zip(&powers_of_priv_key): the elements that get a worker.
zipped(v, powers_of_priv_key) ==
    {i \in 2 .. Len(v) : i - 1 <= Len(powers_of_priv_key)}

\* ------------------------------------------------ accumulator
\* The Accumulator variant (accumulator.rs, with the three-field UpdateProof
\* of update_proof.rs).
\* Accumulator::new: every element is the generator; no size is refused.
Accumulator_new(num_g1, num_g2) ==
    [tau_g1 |-> [i \in 1 .. num_g1 |-> G1Gen], tau_g2 |-> [i \in 1 .. num_g2 |-> G2Gen]]

\* Accumulator::update: the proof also carries the degree-1 element read
\* before the update.
Accumulator_update(s, tau) ==
    LET previous_tau == s.tau_g1[2]
        updated == update_accumulator(s, tau)
    IN  [srs |-> updated,
         proof |-> [commitment_to_secret |-> to_public(tau),
                    previous_accumulated_point |-> previous_tau,
                    new_accumulated_point |-> updated.tau_g1[2]]]

\* Mutant: only the identity commitment is rejected.
is_valid_zero_only(update_proof) ==
    ~is_zero(update_proof.commitment_to_secret)

\* UpdateProof::is_valid: the commitment is neither the generator (secret 1)
\* nor the identity (secret 0).
is_valid(update_proof) ==
    IF update_proof.commitment_to_secret = G2Gen THEN FALSE
    ELSE IF is_zero(update_proof.commitment_to_secret) THEN FALSE
    ELSE TRUE

\* The loop of UpdateProof::verify_chain(update_proofs) once every proof is
\* known to be valid.
RECURSIVE UpdateProof_extend_all(_, _)
UpdateProof_extend_all(chain, proofs) ==
    IF proofs = <<>> THEN chain
    ELSE UpdateProof_extend_all(extend(chain, Head(proofs).new_accumulated_point,
                                       Head(proofs).commitment_to_secret),
                                Tail(proofs))

\* UpdateProof::verify_chain(update_proofs), the one-argument form: the chain
\* starts at the first proof's previous point; an invalid proof makes it false.
UpdateProof_verify_chain(proofs) ==
    IF proofs = <<>> THEN Abort
    ELSE IF \E k \in 1 .. Len(proofs) : ~is_valid(proofs[k]) THEN Ok(FALSE)
    ELSE Ok(chain_verify(
             UpdateProof_extend_all(starting_from(proofs[1].previous_accumulated_point),
                                    proofs)))

\* Accumulator::structure_check: the pairwise check.
Accumulator_structure_check(s) ==
    LET tau_g2_0 == s.tau_g2[1]
        tau_g2_1 == s.tau_g2[2]
        tau_g1_0 == s.tau_g1[1]
        tau_g1_1 == s.tau_g1[2]
    IN  /\ \A i \in 1 .. Len(s.tau_g1) - 1 :
               pairing(s.tau_g1[i + 1], tau_g2_0) = pairing(s.tau_g1[i], tau_g2_1)
        /\ \A i \in 1 .. Len(s.tau_g2) - 1 :
               pairing(tau_g1_0, s.tau_g2[i + 1]) = pairing(tau_g1_1, s.tau_g2[i])

\* Accumulator::verify_updates: expect() aborts on an empty list; the
\* identity check is on the degree-0 elements.
Accumulator_verify_updates(b, a, proofs) ==
    IF proofs = <<>> THEN Abort
    ELSE IF Len(b.tau_g1) < 2 THEN Abort
    ELSE IF b.tau_g1[2] # proofs[1].previous_accumulated_point THEN Ok(FALSE)
    ELSE IF Len(a.tau_g1) < 2 THEN Abort
    ELSE IF a.tau_g1[2] # proofs[Len(proofs)].new_accumulated_point THEN Ok(FALSE)
    ELSE IF ~UpdateProof_verify_chain(proofs).val THEN Ok(FALSE)
    ELSE IF is_zero(a.tau_g1[1]) THEN Ok(FALSE)
    ELSE IF Len(a.tau_g2) < 2 THEN Abort
    ELSE IF is_zero(a.tau_g2[1]) THEN Ok(FALSE)
    ELSE IF ~Accumulator_structure_check(a) THEN Ok(FALSE)
    ELSE Ok(TRUE)

\* Accumulator::verify_update: a single proof.
Accumulator_verify_update(b, a, update_proof) ==
    Accumulator_verify_updates(b, a, <<update_proof>>)

\* ------------------------------------------------------------ sdk
\* The number of sub-ceremonies, and their sizes scaled down: the G1 sizes
\* grow from one sub-ceremony to the next, the G2 size is the same in all.
NUM_CEREMONIES == 4

CEREMONIES ==
    <<Parameters_new(2, 2), Parameters_new(3, 2),
      Parameters_new(4, 2), Parameters_new(5, 2)>>

\* Fr::from_be_bytes_mod_order: the big-endian number, reduced; no bytes give 0.
RECURSIVE from_be_bytes_mod_order(_)
from_be_bytes_mod_order(bytes) ==
    IF bytes = <<>> THEN 0
    ELSE (256 * from_be_bytes_mod_order(SubSeq(bytes, 1, Len(bytes) - 1))
          + bytes[Len(bytes)]) % FrModulus

\* PrivateKey::from_bytes
PrivateKey_from_bytes(bytes) == from_be_bytes_mod_order(bytes)

\* Transcript::default: a fresh SRS of the fixed size in every slot.
Transcript_default ==
    [sub_ceremonies |->
        [i \in 1 .. NUM_CEREMONIES |->
            new(CEREMONIES[i].num_g1_elements_needed,
                CEREMONIES[i].num_g2_elements_needed).srs]]

\* The first loop of update_transcript: some SRS has not the fixed size.
wrong_parameters(transcript) ==
    \E i \in 1 .. NUM_CEREMONIES :
        \/ Len(transcript.sub_ceremonies[i].tau_g1)
               # CEREMONIES[i].num_g1_elements_needed
        \/ Len(transcript.sub_ceremonies[i].tau_g2)
               # CEREMONIES[i].num_g2_elements_needed

\* The second loop of update_transcript from slot i on: the secret is
\* stripped of its prefix, hex-decoded and turned into a private key, and the
\* SRS of the slot is updated with it; the first secret that cannot be
\* decoded ends the call with an absent result.
RECURSIVE update_slots(_, _, _, _)
update_slots(transcript, secrets_hex, proofs, i) ==
    IF i > NUM_CEREMONIES
    THEN Some([transcript |-> transcript, update_proofs |-> proofs])
    ELSE LET stripped == strip_prefix(secrets_hex[i])
             bytes == hex_decode(stripped.val)
             priv_key == PrivateKey_from_bytes(bytes.val)
             updated == update(transcript.sub_ceremonies[i], priv_key)
         IN  IF ~stripped.some THEN None
             ELSE IF ~bytes.some THEN None
             ELSE update_slots(
                      [transcript EXCEPT !.sub_ceremonies[i] = updated.srs],
                      secrets_hex, Append(proofs, updated.proof), i + 1)

\* Mutant: the sizes of the SRSs are not looked at.
update_transcript_any_size(transcript, secrets_hex) ==
    update_slots(transcript, secrets_hex, <<>>, 1)

\* update_transcript
update_transcript(transcript, secrets_hex) ==
    IF wrong_parameters(transcript) THEN None
    ELSE update_slots(transcript, secrets_hex, <<>>, 1)

\* Mutant: every slot is verified against the proof of the first slot.
RECURSIVE verify_slots_first_proof(_, _, _, _, _)
verify_slots_first_proof(old, new_transcript, proofs, random_hex_elements, i) ==
    IF i > NUM_CEREMONIES THEN Ok(TRUE)
    ELSE LET stripped == strip_prefix(random_hex_elements[i])
             bytes == hex_decode(stripped.val)
             element == from_be_bytes_mod_order(bytes.val)
             verified == verify_update(old.sub_ceremonies[i],
                                       new_transcript.sub_ceremonies[i],
                                       proofs[1], element)
         IN  IF ~stripped.some THEN Ok(FALSE)
             ELSE IF ~bytes.some THEN Ok(FALSE)
             ELSE IF verified # Ok(TRUE) THEN verified
             ELSE verify_slots_first_proof(old, new_transcript, proofs,
                                           random_hex_elements, i + 1)

transcript_verify_update_first_proof(old, new_transcript, proofs, random_hex_elements) ==
    verify_slots_first_proof(old, new_transcript, proofs, random_hex_elements, 1)

\* The loop of transcript_verify_update from slot i on: the challenge is
\* stripped of its prefix and hex-decoded, and the slot's update is verified
\* with it; the first slot that fails ends the call with false.
RECURSIVE verify_slots(_, _, _, _, _)
verify_slots(old, new_transcript, proofs, random_hex_elements, i) ==
    IF i > NUM_CEREMONIES THEN Ok(TRUE)
    ELSE LET stripped == strip_prefix(random_hex_elements[i])
             bytes == hex_decode(stripped.val)
             element == from_be_bytes_mod_order(bytes.val)
             verified == verify_update(old.sub_ceremonies[i],
                                       new_transcript.sub_ceremonies[i],
                                       proofs[i], element)
         IN  IF ~stripped.some THEN Ok(FALSE)
             ELSE IF ~bytes.some THEN Ok(FALSE)
             ELSE IF verified # Ok(TRUE) THEN verified
             ELSE verify_slots(old, new_transcript, proofs,
                               random_hex_elements, i + 1)

\* transcript_verify_update
transcript_verify_update(old, new_transcript, proofs, random_hex_elements) ==
    verify_slots(old, new_transcript, proofs, random_hex_elements, 1)

\* transcript_subgroup_check: false at the first SRS that fails.
transcript_subgroup_check(transcript) ==
    IF \E i \in 1 .. NUM_CEREMONIES : ~subgroup_check(transcript.sub_ceremonies[i])
    THEN FALSE
    ELSE TRUE

\* SRSJson::from(&SRS): the two arrays of hex strings.
SRSJson_from(s) == to_json_array(s)

\* Option<SRS>::from(&SRSJson): the arrays are decoded as an SRS of the
\* sizes they have.
SRSJson_into(srs_json) ==
    deserialise(srs_json, Parameters_new(Len(srs_json.g1), Len(srs_json.g2)))

\* TranscriptJSON::from(&Transcript)
TranscriptJSON_from(transcript) ==
    [sub_ceremonies |->
        [i \in 1 .. NUM_CEREMONIES |-> SRSJson_from(transcript.sub_ceremonies[i])]]

\* Contribution::default
Contribution_default ==
    [contributions |->
        [i \in 1 .. NUM_CEREMONIES |->
            new(CEREMONIES[i].num_g1_elements_needed,
                CEREMONIES[i].num_g2_elements_needed).srs]]

\* The array of decoded sub-ceremonies, one Option<SRS> for each SRSJson.
sub_ceremonies_option(srs_jsons) ==
    [i \in 1 .. NUM_CEREMONIES |-> SRSJson_into(srs_jsons[i])]

\* A closure of the map over the array has panicked.
map_panics(options) == \E i \in 1 .. NUM_CEREMONIES : options[i].abort

\* The loop over the decoded sub-ceremonies reaches a None.
loop_finds_none(options) == \E i \in 1 .. NUM_CEREMONIES : ~options[i].some

\* The vector the loop has pushed every SRS to.
pushed(options) == [i \in 1 .. NUM_CEREMONIES |-> options[i].val]

\* Option<Transcript>::from(&TranscriptJSON) of sdk.rs, from the decoded
\* array on: None at the first sub-ceremony that did not decode.
Transcript_option_from(options) ==
    IF map_panics(options) THEN Panic
    ELSE IF loop_finds_none(options) THEN None
    ELSE Some([sub_ceremonies |-> pushed(options)])

\* Transcript::from(&TranscriptJSON) of sdk/transcript.rs, from the decoded
\* array on: the default transcript at the first sub-ceremony that did not
\* decode.
Transcript_from(options) ==
    IF map_panics(options) THEN Abort
    ELSE IF loop_finds_none(options) THEN Ok(Transcript_default)
    ELSE Ok([sub_ceremonies |-> pushed(options)])

\* Contribution::from(&ContributionJSON) of sdk/contribution.rs, from the
\* decoded array on.
Contribution_from(options) ==
    IF map_panics(options) THEN Abort
    ELSE IF loop_finds_none(options) THEN Ok(Contribution_default)
    ELSE Ok([contributions |-> pushed(options)])

\* ------------------------------------------------ state machine
\* The permutations of 1 .. n.
Perms(n) == {f \in [1 .. n -> 1 .. n] : \A i, j \in 1 .. n : f[i] = f[j] => i = j}

IdPerm(n) == [i \in 1 .. n |-> i]

Permute(seq, sigma) == [i \in 1 .. Len(seq) |-> seq[sigma[i]]]

\* The record of the last call: the operation, the proof list and challenge
\* it was given, the permutation that produced the list, and the result.
Call(op, sigma, proofs, r, res) ==
    [op |-> op, sigma |-> sigma, proofs |-> proofs, r |-> r, input |-> <<>>,
     res |-> res]

\* The record of a call of the point codec on the bytes `input`.
CodecCall(op, input, res) ==
    [op |-> op, sigma |-> <<>>, proofs |-> <<>>, r |-> 0, input |-> input,
     res |-> res]

\* No call is in progress.
NoCall == Call("none", <<>>, <<>>, 0, Ok(FALSE))

Init ==
    /\ \E n \in 2 .. MaxG1, m \in 2 .. MaxG2 : before = new(n, m).srs
    /\ srs = before
    /\ prev = before
    /\ secrets = <<>>
    /\ update_proofs = <<>>
    /\ last = NoCall

\* A contributor updates the SRS with the secret tau (SRS::update); the
\* ceremony is followed for at most `bound` contributions.
Contribute(tau, bound) ==
    /\ last = NoCall
    /\ Len(secrets) < bound
    /\ prev' = srs
    /\ srs' = update(srs, tau).srs
    /\ update_proofs' = Append(update_proofs, update(srs, tau).proof)
    /\ secrets' = Append(secrets, tau)
    /\ last' = NoCall
    /\ UNCHANGED before

\* The verifier checks the whole ceremony, from the fresh SRS to the current
\* one, with the collected proofs in the order sigma and the challenge r.
VerifyUpdates(sigma, r) ==
    /\ last = NoCall
    /\ update_proofs # <<>>
    /\ last' = Call("verify_updates", sigma, Permute(update_proofs, sigma), r,
                    verify_updates(before, srs, Permute(update_proofs, sigma), r))
    /\ UNCHANGED <<before, srs, prev, secrets, update_proofs>>

\* The verifier calls verify_updates without any proof.
VerifyNoProofs(r) ==
    /\ last = NoCall
    /\ last' = Call("verify_updates", <<>>, <<>>, r,
                    verify_updates(before, srs, <<>>, r))
    /\ UNCHANGED <<before, srs, prev, secrets, update_proofs>>

\* The coordinator checks the last contribution alone (SRS::verify_update).
VerifyUpdate(r) ==
    /\ last = NoCall
    /\ update_proofs # <<>>
    /\ LET proof == update_proofs[Len(update_proofs)]
       IN  last' = Call("verify_update", <<>>, <<proof>>, r,
                        verify_update(prev, srs, proof, r))
    /\ UNCHANGED <<before, srs, prev, secrets, update_proofs>>

\* The call returns to its caller: every operation runs on a single thread of
\* control and completes before the next one starts.
Return ==
    /\ last # NoCall
    /\ last' = NoCall
    /\ UNCHANGED <<before, srs, prev, secrets, update_proofs>>

\* A verifier call with each proof order and each challenge.
VerifyUpdatesAny ==
    /\ last = NoCall
    /\ \E sigma \in Perms(Len(update_proofs)), r \in Fr : VerifyUpdates(sigma, r)

Update(tau) == Contribute(tau, MaxUpdates)

\* The current SRS is serialised and read back with its own dimensions
\* (SRS::serialise, then SRS::deserialise).
SerialiseDeserialise ==
    /\ last = NoCall
    /\ LET json == serialise(srs)
           parameters == Parameters_new(Len(srs.tau_g1), Len(srs.tau_g2))
       IN  last' = CodecCall("serialise_deserialise",
                             [json |-> json, parameters |-> parameters],
                             deserialise(json, parameters))
    /\ UNCHANGED <<before, srs, prev, secrets, update_proofs>>

Next ==
    \/ \E tau \in Fr : Update(tau)
    \/ VerifyUpdatesAny
    \/ \E r \in Fr : VerifyNoProofs(r)
    \/ \E r \in Fr : VerifyUpdate(r)
    \/ SerialiseDeserialise
    \/ Return

Spec == Init /\ [][Next]_vars

\* The ceremony of honest contributors (secrets neither 0 nor 1) over the
\* smallest SRS, followed for more contributions: the proof chain involves
\* the degree-1 element only.
InitChain ==
    /\ before = new(2, 2).srs
    /\ srs = before
    /\ prev = before
    /\ secrets = <<>>
    /\ update_proofs = <<>>
    /\ last = NoCall

ChainUpdate(tau) == Contribute(tau, MaxChain)

NextChain ==
    \/ \E tau \in Fr \ {0, 1} : ChainUpdate(tau)
    \/ VerifyUpdatesAny
    \/ Return

SpecChain == InitChain /\ [][NextChain]_vars

\* Any SRS that SRS::from_vectors accepts, of at most MaxVecPoints points in
\* all, put through the two structure checks.
InitVec ==
    /\ \E n \in 0 .. MaxVecPoints :
       \E m \in 0 .. MaxVecPoints - n :
       \E g1s \in [1 .. n -> Fr], g2s \in [1 .. m -> Fr] :
           /\ from_vectors(g1s, g2s).some
           /\ srs = from_vectors(g1s, g2s).srs
    /\ before = srs
    /\ prev = srs
    /\ secrets = <<>>
    /\ update_proofs = <<>>
    /\ last = NoCall

StructureCheckOpt(r) ==
    /\ last = NoCall
    /\ last' = Call("structure_check_opt", <<>>, <<>>, r,
                    Ok(structure_check_opt(srs, r)))
    /\ UNCHANGED <<before, srs, prev, secrets, update_proofs>>

StructureCheck ==
    /\ last = NoCall
    /\ last' = Call("structure_check", <<>>, <<>>, 0, Ok(structure_check(srs)))
    /\ UNCHANGED <<before, srs, prev, secrets, update_proofs>>

NextVec ==
    \/ \E r \in Fr : StructureCheckOpt(r)
    \/ StructureCheck
    \/ Return

SpecVec == InitVec /\ [][NextVec]_vars

\* The point codec and the deserialiser on inputs from outside: every byte
\* string of the serialised sizes, every point of the two curves, and JSON
\* arrays of at most MaxJsonPoints hex strings in all, to be read with
\* parameters of at most MaxJsonParams elements a group.
ByteStrings(n) == [1 .. n -> 0 .. 255]

\* Hex strings as a caller may send them: the generator, the identity, a
\* string without the prefix, one with a character that is no hex digit, one
\* of odd length, one of the wrong byte length, and well-formed hex of the
\* right length whose compression flag is clear.
G1JsonStrings ==
    {<<"0", "x", "8", "7">>, <<"0", "x", "c", "0">>, <<"8", "7">>,
     <<"0", "x", "8", "g">>, <<"0", "x", "8">>, <<"0", "x", "8", "7", "8", "7">>,
     <<"0", "x", "0", "0">>}

G2JsonStrings ==
    {<<"0", "x", "8", "3", "0", "5">>, <<"0", "x", "c", "0", "0", "0">>,
     <<"8", "3", "0", "5">>, <<"0", "x", "8", "3", "g", "5">>,
     <<"0", "x", "8", "3", "0">>, <<"0", "x", "8", "3">>,
     <<"0", "x", "0", "0", "0", "0">>}

JsonLists(pool, k) == [1 .. k -> pool]

DecodeG1(bytes) ==
    /\ last = NoCall
    /\ last' = CodecCall("deserialize_g1", bytes, deserialize_g1(bytes))
    /\ UNCHANGED <<before, srs, prev, secrets, update_proofs>>

DecodeG2(bytes) ==
    /\ last = NoCall
    /\ last' = CodecCall("deserialize_g2", bytes, deserialize_g2(bytes))
    /\ UNCHANGED <<before, srs, prev, secrets, update_proofs>>

EncodeG1(p) ==
    /\ last = NoCall
    /\ last' = CodecCall("serialize_g1", p, Ok(serialize_g1(p)))
    /\ UNCHANGED <<before, srs, prev, secrets, update_proofs>>

EncodeG2(p) ==
    /\ last = NoCall
    /\ last' = CodecCall("serialize_g2", p, Ok(serialize_g2(p)))
    /\ UNCHANGED <<before, srs, prev, secrets, update_proofs>>

\* SRS::deserialise on a JSON array and parameters from outside.
Deserialise(json, parameters) ==
    /\ last = NoCall
    /\ last' = CodecCall("deserialise", [json |-> json, parameters |-> parameters],
                         deserialise(json, parameters))
    /\ UNCHANGED <<before, srs, prev, secrets, update_proofs>>

DecodeAny ==
    /\ last = NoCall
    /\ \/ \E bytes \in ByteStrings(G1_SERIALISED_SIZE) : DecodeG1(bytes)
       \/ \E bytes \in ByteStrings(G2_SERIALISED_SIZE) : DecodeG2(bytes)

EncodeAny ==
    /\ last = NoCall
    /\ \/ \E p \in G1CurvePoints \cup {G1AffineDefault} : EncodeG1(p)
       \/ \E p \in G2CurvePoints \cup {G2AffineDefault} : EncodeG2(p)

DeserialiseAny ==
    /\ last = NoCall
    /\ \E k1 \in 0 .. MaxJsonPoints :
       \E k2 \in 0 .. MaxJsonPoints - k1 :
       \E g1 \in JsonLists(G1JsonStrings, k1), g2 \in JsonLists(G2JsonStrings, k2),
          n \in 1 .. MaxJsonParams, m \in 1 .. MaxJsonParams :
           Deserialise([g1 |-> g1, g2 |-> g2], Parameters_new(n, m))

NextCodec ==
    \/ DecodeAny
    \/ EncodeAny
    \/ DeserialiseAny
    \/ Return

SpecCodec == InitChain /\ [][NextCodec]_vars

\* The ceremony over the Accumulator variant.
InitAcc ==
    /\ \E n \in 2 .. MaxG1, m \in 2 .. MaxG2 : before = Accumulator_new(n, m)
    /\ srs = before
    /\ prev = before
    /\ secrets = <<>>
    /\ update_proofs = <<>>
    /\ last = NoCall

AccUpdate(tau) ==
    /\ last = NoCall
    /\ Len(secrets) < MaxUpdates
    /\ prev' = srs
    /\ srs' = Accumulator_update(srs, tau).srs
    /\ update_proofs' = Append(update_proofs, Accumulator_update(srs, tau).proof)
    /\ secrets' = Append(secrets, tau)
    /\ last' = NoCall
    /\ UNCHANGED before

\* The coordinator checks the last contribution (Accumulator::verify_update).
AccVerifyUpdate ==
    /\ last = NoCall
    /\ update_proofs # <<>>
    /\ LET proof == update_proofs[Len(update_proofs)]
       IN  last' = Call("Accumulator::verify_update", <<>>, <<proof>>, 0,
                        Accumulator_verify_update(prev, srs, proof))
    /\ UNCHANGED <<before, srs, prev, secrets, update_proofs>>

\* The verifier checks the whole ceremony (Accumulator::verify_updates).
AccVerifyUpdates ==
    /\ last = NoCall
    /\ last' = Call("Accumulator::verify_updates", <<>>, update_proofs, 0,
                    Accumulator_verify_updates(before, srs, update_proofs))
    /\ UNCHANGED <<before, srs, prev, secrets, update_proofs>>

NextAcc ==
    \/ \E tau \in Fr : AccUpdate(tau)
    \/ AccVerifyUpdate
    \/ AccVerifyUpdates
    \/ Return

SpecAcc == InitAcc /\ [][NextAcc]_vars

\* The sdk's transcript of NUM_CEREMONIES sub-ceremonies: `srs` holds the
\* transcript, `before` the transcript the last update was given and
\* `update_proofs` the proofs that update returned.
\* Secrets as a contributor may send them: an empty hex body, a value below
\* the group order, one above it, a two-byte value, a string without the
\* prefix and one with a character that is no hex digit.
SecretStrings ==
    {<<"0", "x">>, <<"0", "x", "0", "2">>, <<"0", "x", "0", "7">>,
     <<"0", "x", "0", "1", "0", "3">>, <<"0", "2">>, <<"0", "x", "g", "2">>}

\* Challenges as a verifier may send them: a nonzero value, a multiple of the
\* group order, a string without the prefix and one of odd length.
RandomStrings ==
    {<<"0", "x", "0", "2">>, <<"0", "x", "0", "5">>, <<"0", "2">>,
     <<"0", "x", "2">>}

\* The orders in which the proofs can be handed to the verifier: the order
\* of the slots, or two proofs exchanged.
SlotSwaps ==
    {sigma \in Perms(NUM_CEREMONIES) :
        Cardinality({i \in 1 .. NUM_CEREMONIES : sigma[i] # i}) <= 2}

InitTranscript ==
    /\ before = Transcript_default
    /\ srs = Transcript_default
    /\ prev = NoSRS
    /\ secrets = <<>>
    /\ update_proofs = <<>>
    /\ last = NoCall

\* A caller builds a transcript whose slot i holds a fresh SRS of another size.
ReplaceSlot(i, n, m) ==
    /\ last = NoCall
    /\ srs = Transcript_default
    /\ update_proofs = <<>>
    /\ \/ n # CEREMONIES[i].num_g1_elements_needed
       \/ m # CEREMONIES[i].num_g2_elements_needed
    /\ srs' = [srs EXCEPT !.sub_ceremonies[i] = new(n, m).srs]
    /\ before' = srs'
    /\ UNCHANGED <<prev, secrets, update_proofs, last>>

\* update_transcript on the transcript and four secrets; the caller keeps
\* what it returns.
UpdateTranscript(secrets_hex) ==
    /\ last = NoCall
    /\ update_proofs = <<>>
    /\ LET res == update_transcript(srs, secrets_hex)
       IN  /\ last' = CodecCall("update_transcript",
                                [transcript |-> srs, secrets |-> secrets_hex], res)
           /\ IF res.some
              THEN /\ before' = srs
                   /\ srs' = res.val.transcript
                   /\ update_proofs' = res.val.update_proofs
              ELSE UNCHANGED <<before, srs, update_proofs>>
    /\ UNCHANGED <<prev, secrets>>

\* transcript_verify_update on the transcripts before and after the update,
\* the proofs in the order sigma and four challenges.
VerifyTranscript(sigma, random_hex_elements) ==
    /\ last = NoCall
    /\ update_proofs # <<>>
    /\ LET proofs == Permute(update_proofs, sigma)
       IN  last' = CodecCall("transcript_verify_update",
                             [old |-> before, new |-> srs, proofs |-> proofs,
                              random_hex_elements |-> random_hex_elements],
                             transcript_verify_update(before, srs, proofs,
                                                      random_hex_elements))
    /\ UNCHANGED <<before, srs, prev, secrets, update_proofs>>

ReplaceAnySlot ==
    /\ last = NoCall
    /\ \E i \in 1 .. NUM_CEREMONIES, n \in 2 .. MaxG1, m \in 2 .. MaxG2 :
           ReplaceSlot(i, n, m)

UpdateAnyTranscript ==
    /\ last = NoCall
    /\ \E secrets_hex \in [1 .. NUM_CEREMONIES -> SecretStrings] :
           UpdateTranscript(secrets_hex)

VerifyAnyTranscript ==
    /\ last = NoCall
    /\ update_proofs # <<>>
    /\ \E sigma \in SlotSwaps :
       \E random_hex_elements \in [1 .. NUM_CEREMONIES -> RandomStrings] :
           VerifyTranscript(sigma, random_hex_elements)

NextTranscript ==
    \/ ReplaceAnySlot
    \/ UpdateAnyTranscript
    \/ VerifyAnyTranscript
    \/ Return

SpecTranscript == InitTranscript /\ [][NextTranscript]_vars

\* Transcripts that hold points from outside: up to MaxForeignPoints elements
\* of the default transcript are replaced by the identity or by a curve
\* point outside the prime-order subgroup, and the subgroup checks are run.
\* G1: a point of order 2 and one of order 30.  G2: a point of order 5 that
\* is no multiple of the generator, and a point of order 2.
ForeignG1Points ==
    {Identity,
     g1_into_projective([infinity |-> FALSE, x |-> 20, y |-> 0]),
     g1_into_projective([infinity |-> FALSE, x |-> 1, y |-> 11])}

ForeignG2Points ==
    {Identity,
     g2_into_projective([infinity |-> FALSE, x |-> Fp2_new(5, 13),
                         y |-> Fp2_new(9, 23)]),
     g2_into_projective(CHOOSE P \in G2CurvePoints : P.y = Fq2Zero)}

\* The number of elements of the transcript that are not the generator.
ForeignCount(transcript) ==
    LET count(v, g) == Cardinality({i \in 1 .. Len(v) : v[i] # g})
        per_slot[i \in 0 .. NUM_CEREMONIES] ==
            IF i = 0 THEN 0
            ELSE per_slot[i - 1] + count(transcript.sub_ceremonies[i].tau_g1, G1Gen)
                     + count(transcript.sub_ceremonies[i].tau_g2, G2Gen)
    IN  per_slot[NUM_CEREMONIES]

\* A caller puts the point P at index k of the G1 vector of slot i.
PutG1(i, k, P) ==
    /\ last = NoCall
    /\ ForeignCount(srs) < MaxForeignPoints
    /\ srs.sub_ceremonies[i].tau_g1[k] = G1Gen
    /\ srs' = [srs EXCEPT !.sub_ceremonies[i].tau_g1[k] = P]
    /\ UNCHANGED <<before, prev, secrets, update_proofs, last>>

PutG2(i, k, P) ==
    /\ last = NoCall
    /\ ForeignCount(srs) < MaxForeignPoints
    /\ srs.sub_ceremonies[i].tau_g2[k] = G2Gen
    /\ srs' = [srs EXCEPT !.sub_ceremonies[i].tau_g2[k] = P]
    /\ UNCHANGED <<before, prev, secrets, update_proofs, last>>

PutAny ==
    /\ last = NoCall
    /\ \E i \in 1 .. NUM_CEREMONIES :
          \/ \E k \in 1 .. Len(srs.sub_ceremonies[i].tau_g1), P \in ForeignG1Points :
                 PutG1(i, k, P)
          \/ \E k \in 1 .. Len(srs.sub_ceremonies[i].tau_g2), P \in ForeignG2Points :
                 PutG2(i, k, P)

\* SRS::subgroup_check on the SRS of slot i.
SubgroupCheck(i) ==
    /\ last = NoCall
    /\ last' = CodecCall("subgroup_check", srs.sub_ceremonies[i],
                         Ok(subgroup_check(srs.sub_ceremonies[i])))
    /\ UNCHANGED <<before, srs, prev, secrets, update_proofs>>

TranscriptSubgroupCheck ==
    /\ last = NoCall
    /\ last' = CodecCall("transcript_subgroup_check", srs,
                         Ok(transcript_subgroup_check(srs)))
    /\ UNCHANGED <<before, srs, prev, secrets, update_proofs>>

NextSubgroup ==
    \/ PutAny
    \/ \E i \in 1 .. NUM_CEREMONIES : SubgroupCheck(i)
    \/ TranscriptSubgroupCheck
    \/ Return

SpecSubgroup == InitTranscript /\ [][NextSubgroup]_vars

\* A SharedSecretChain on its own: `srs` holds the chain and `prev` the chain
\* before its last link was pushed; any point and any witness can be pushed.
InitSecretChain ==
    /\ \E starting_point \in Fr : srs = starting_from(starting_point)
    /\ prev = srs
    /\ before = srs
    /\ secrets = <<>>
    /\ update_proofs = <<>>
    /\ last = NoCall

ChainExtend(new_accumulated_point, witness) ==
    /\ last = NoCall
    /\ Len(srs.witnesses) < MaxLinks
    /\ prev' = srs
    /\ srs' = extend(srs, new_accumulated_point, witness)
    /\ UNCHANGED <<before, secrets, update_proofs, last>>

ChainRemoveLast ==
    /\ last = NoCall
    /\ Len(srs.witnesses) >= 1
    /\ srs' = remove_last(srs)
    /\ prev' = srs'
    /\ UNCHANGED <<before, secrets, update_proofs, last>>

ChainVerify ==
    /\ last = NoCall
    /\ last' = CodecCall("SharedSecretChain::verify", srs, Ok(chain_verify(srs)))
    /\ UNCHANGED <<before, srs, prev, secrets, update_proofs>>

NextSecretChain ==
    \/ \E new_accumulated_point \in Fr, witness \in Fr :
           ChainExtend(new_accumulated_point, witness)
    \/ ChainRemoveLast
    \/ ChainVerify
    \/ Return

SpecSecretChain == InitSecretChain /\ [][NextSecretChain]_vars

\* The memory that one call of SRS::update writes the secret to.  `prev`
\* holds the cells: the PrivateKey's field, the by-value copy of it that
\* update_srs receives, the vector of its powers and the integer that
\* to_public takes from it.  A cell holds what was written to it until it is
\* wiped: leaving a frame or freeing a vector does not overwrite it.
\* `last.op` is the position in update, `secrets` the contributor's secret.
Cell(val, live) == [val |-> val, live |-> live, wiped |-> FALSE]

NoCell == [val |-> <<>>, live |-> FALSE, wiped |-> FALSE]

\* The end of a cell's life without zeroization.
Freed(cell) == [cell EXCEPT !.live = FALSE]

\* Drop of a PrivateKey (ZeroizeOnDrop): the field is overwritten.
Zeroized(cell) ==
    [val |-> [i \in 1 .. Len(cell.val) |-> 0], live |-> FALSE, wiped |-> TRUE]

At(position) == CodecCall(position, <<>>, Ok(FALSE))

\* A PrivateKey and an SRS to update; the vectors of an SRS read by
\* SRS::deserialise can hold a single element.
InitZeroize ==
    /\ \E n \in 1 .. MaxG1, m \in 1 .. MaxG2 :
           srs = [tau_g1 |-> [i \in 1 .. n |-> G1Gen],
                  tau_g2 |-> [i \in 1 .. m |-> G2Gen]]
    /\ before = srs
    /\ \E tau \in Fr : secrets = <<tau>>
    /\ prev = [key |-> Cell(secrets, TRUE), arg |-> NoCell, powers |-> NoCell,
               repr |-> NoCell]
    /\ update_proofs = <<>>
    /\ last = NoCall

\* update(&mut self, private_key): the key is moved into the call.
ZCallUpdate ==
    /\ last = NoCall
    /\ last' = At("update")
    /\ UNCHANGED <<before, srs, prev, secrets, update_proofs>>

\* self.update_srs(private_key.tau): the scalar is copied into the argument.
ZCallUpdateSrs ==
    /\ last = At("update")
    /\ prev' = [prev EXCEPT !.arg = Cell(prev.key.val, TRUE)]
    /\ last' = At("update_srs")
    /\ UNCHANGED <<before, srs, secrets, update_proofs>>

\* vandemonde_challenge(private_key, max_number_elements - 1): the vector of
\* the powers.  With a length of 0 the secret is pushed and `n - 1`
\* underflows: a panic that unwinds, dropping the vector and the key, or in a
\* build without overflow checks a loop that pushes powers until the
\* allocation fails and the process is aborted.
ZVandermonde ==
    /\ last = At("update_srs")
    /\ LET n == Max(Len(srs.tau_g1), Len(srs.tau_g2)) - 1
       IN  IF n >= 1
           THEN /\ prev' = [prev EXCEPT
                               !.powers = Cell(vandemonde_challenge(prev.arg.val[1], n), TRUE)]
                /\ last' = At("powers")
           ELSE \/ /\ prev' = [prev EXCEPT !.powers = Freed(Cell(prev.arg.val, TRUE)),
                                           !.arg = Freed(@),
                                           !.key = Zeroized(@)]
                   /\ last' = At("unwound")
                \/ /\ prev' = [prev EXCEPT !.powers = Cell(prev.arg.val, TRUE)]
                   /\ last' = At("aborted")
    /\ UNCHANGED <<before, srs, secrets, update_proofs>>

\* The two loops over the elements.
ZMultiply ==
    /\ last = At("powers")
    /\ srs' = update_srs(srs, prev.arg.val[1])
    /\ last' = At("multiplied")
    /\ UNCHANGED <<before, prev, secrets, update_proofs>>

\* update_srs returns: the vector is freed and the frame left.
ZReturnUpdateSrs ==
    /\ last = At("multiplied")
    /\ prev' = [prev EXCEPT !.powers = Freed(@), !.arg = Freed(@)]
    /\ last' = At("read_point")
    /\ UNCHANGED <<before, srs, secrets, update_proofs>>

\* let updated_tau = self.tau_g1[1]: a panic when tau_g1 holds one element;
\* the unwinding drops the key.
ZReadPoint ==
    /\ last = At("read_point")
    /\ IF Len(srs.tau_g1) < 2
       THEN /\ prev' = [prev EXCEPT !.key = Zeroized(@)]
            /\ last' = At("unwound")
       ELSE /\ last' = At("to_public")
            /\ UNCHANGED prev
    /\ UNCHANGED <<before, srs, secrets, update_proofs>>

\* private_key.to_public(): the key is moved into to_public, its scalar is
\* turned into an integer for the multiplication, and the key is dropped
\* when to_public returns; update returns the proof.
ZToPublic ==
    /\ last = At("to_public")
    /\ prev' = [prev EXCEPT !.repr = Freed(Cell(prev.key.val, TRUE)),
                            !.key = Zeroized(@)]
    /\ update_proofs' = <<[commitment_to_secret |-> to_public(prev.key.val[1]),
                           new_accumulated_point |-> srs.tau_g1[2]]>>
    /\ last' = At("returned")
    /\ UNCHANGED <<before, srs, secrets>>

NextZeroize ==
    \/ ZCallUpdate
    \/ ZCallUpdateSrs
    \/ ZVandermonde
    \/ ZMultiply
    \/ ZReturnUpdateSrs
    \/ ZReadPoint
    \/ ZToPublic

SpecZeroize == InitZeroize /\ [][NextZeroize]_vars

\* update_srs with the `parallel` feature: the elements of tau_g1, then those
\* of tau_g2, are handed to workers that run in any interleaving.  `prev`
\* holds the loop that is running, the powers, and for every element its
\* worker's position and the value it has read; `order` lists the elements
\* in the order they were written.
Workers(v, powers_of_priv_key) ==
    [i \in zipped(v, powers_of_priv_key) |-> [pc |-> "todo", tg |-> Identity]]

InitParallel ==
    /\ \E n \in 2 .. MaxG1, m \in 2 .. MaxG2, tau0 \in Fr :
           before = update_srs(new(n, m).srs, tau0)
    /\ srs = before
    /\ \E tau \in Fr : secrets = <<tau>>
    /\ LET powers_of_priv_key ==
               vandemonde_challenge(secrets[1],
                                    Max(Len(srs.tau_g1), Len(srs.tau_g2)) - 1)
       IN  prev = [loop |-> "tau_g1", powers_of_priv_key |-> powers_of_priv_key,
                   workers |-> Workers(srs.tau_g1, powers_of_priv_key),
                   order |-> <<>>]
    /\ update_proofs = <<>>
    /\ last = NoCall

\* The vector the running loop works on.
LoopVector == IF prev.loop = "tau_g1" THEN srs.tau_g1 ELSE srs.tau_g2

WorkerRead(i) ==
    /\ prev.loop \in {"tau_g1", "tau_g2"}
    /\ i \in DOMAIN prev.workers
    /\ prev.workers[i].pc = "todo"
    /\ prev' = [prev EXCEPT !.workers[i] =
                    [pc |-> "read", tg |-> worker_reads(LoopVector, i)]]
    /\ UNCHANGED <<before, srs, secrets, update_proofs, last>>

WorkerWrite(i) ==
    /\ prev.loop \in {"tau_g1", "tau_g2"}
    /\ i \in DOMAIN prev.workers
    /\ prev.workers[i].pc = "read"
    /\ LET written == worker_writes(LoopVector, i, prev.workers[i].tg,
                                    prev.powers_of_priv_key[i - 1])
       IN  srs' = IF prev.loop = "tau_g1" THEN [srs EXCEPT !.tau_g1 = written]
                  ELSE [srs EXCEPT !.tau_g2 = written]
    /\ prev' = [prev EXCEPT !.workers[i].pc = "done", !.order = Append(@, i)]
    /\ UNCHANGED <<before, secrets, update_proofs, last>>

\* for_each returns when every worker is done: the second loop starts, or
\* update_srs returns.
LoopJoin ==
    /\ prev.loop \in {"tau_g1", "tau_g2"}
    /\ \A i \in DOMAIN prev.workers : prev.workers[i].pc = "done"
    /\ prev' = IF prev.loop = "tau_g1"
               THEN [prev EXCEPT !.loop = "tau_g2",
                                 !.workers = Workers(srs.tau_g2, prev.powers_of_priv_key),
                                 !.order = <<>>]
               ELSE [prev EXCEPT !.loop = "done"]
    /\ UNCHANGED <<before, srs, secrets, update_proofs, last>>

NextParallel ==
    \/ \E i \in 2 .. Max(MaxG1, MaxG2) : WorkerRead(i)
    \/ \E i \in 2 .. Max(MaxG1, MaxG2) : WorkerWrite(i)
    \/ LoopJoin

SpecParallel == InitParallel /\ [][NextParallel]_vars

\* SRS::verify_updates on what a verifier is sent: a starting SRS that a
\* ceremony has reached, an ending SRS built with from_vectors from any
\* points, one or two proofs made of any points, and a challenge.  The
\* degree-1 G1 element of the ending SRS is the last proof's point or the
\* point next to it, the degree-0 elements are the identity, the generator
\* or its double.
StartSecrets == {0, 1, 2}

Degree0Points == {Identity, G1Gen, wnaf_mul(G1Gen, 2)}

ForgedChallenges == {0, 2}

ProofValues == [commitment_to_secret : Fr, new_accumulated_point : Fr]

ProofLists == [1 .. 1 -> ProofValues] \cup [1 .. 2 -> ProofValues]

InitForged ==
    /\ \E tau \in StartSecrets : before = update_srs(new(2, 2).srs, tau)
    /\ srs = before
    /\ prev = before
    /\ secrets = <<>>
    /\ update_proofs = <<>>
    /\ last = NoCall

VerifyForged(after, proofs, r) ==
    /\ last = NoCall
    /\ last' = CodecCall("verify_updates",
                         [before |-> before, after |-> after, proofs |-> proofs,
                          random_element |-> r],
                         verify_updates(before, after, proofs, r))
    /\ UNCHANGED <<before, srs, prev, secrets, update_proofs>>

VerifyAnyForged ==
    /\ last = NoCall
    /\ \E proofs \in ProofLists, shift \in {0, 1}, a0 \in Degree0Points,
          b0 \in Degree0Points, b1 \in Fr, r \in ForgedChallenges :
           LET a1 == point_add(proofs[Len(proofs)].new_accumulated_point, shift)
           IN  VerifyForged(from_vectors(<<a0, a1>>, <<b0, b1>>).srs, proofs, r)

NextForged ==
    \/ VerifyAnyForged
    \/ Return

SpecForged == InitForged /\ [][NextForged]_vars

\* The JSON conversions of the sdk.  `before` is a transcript every
\* sub-ceremony of which has been updated with one secret, `srs` its
\* TranscriptJSON with up to MaxTampered strings replaced by strings that
\* decode, that do not, or that the decoder panics on; `update_proofs` lists
\* the replaced positions.
JsonSecrets == {1, 2}

InitJson ==
    /\ \E tau \in JsonSecrets :
           before = [sub_ceremonies |->
                        [i \in 1 .. NUM_CEREMONIES |->
                            update_srs(Transcript_default.sub_ceremonies[i], tau)]]
    /\ srs = TranscriptJSON_from(before)
    /\ prev = NoSRS
    /\ secrets = <<>>
    /\ update_proofs = <<>>
    /\ last = NoCall

TamperG1(i, j, str) ==
    /\ last = NoCall
    /\ Len(update_proofs) < MaxTampered
    /\ j \in 1 .. Len(srs.sub_ceremonies[i].g1)
    /\ srs.sub_ceremonies[i].g1[j] # str
    /\ srs' = [srs EXCEPT !.sub_ceremonies[i].g1[j] = str]
    /\ update_proofs' = Append(update_proofs, <<i, "g1", j>>)
    /\ UNCHANGED <<before, prev, secrets, last>>

TamperG2(i, j, str) ==
    /\ last = NoCall
    /\ Len(update_proofs) < MaxTampered
    /\ j \in 1 .. Len(srs.sub_ceremonies[i].g2)
    /\ srs.sub_ceremonies[i].g2[j] # str
    /\ srs' = [srs EXCEPT !.sub_ceremonies[i].g2[j] = str]
    /\ update_proofs' = Append(update_proofs, <<i, "g2", j>>)
    /\ UNCHANGED <<before, prev, secrets, last>>

TamperAny ==
    /\ last = NoCall
    /\ \E i \in 1 .. NUM_CEREMONIES :
           \/ \E j \in 1 .. 5, str \in G1JsonStrings : TamperG1(i, j, str)
           \/ \E j \in 1 .. 2, str \in G2JsonStrings : TamperG2(i, j, str)

\* Each conversion decodes the four sub-ceremonies once, then runs its loop
\* over the decoded array; the call record keeps the array.
ConvertTranscriptOption ==
    /\ last = NoCall
    /\ \E options \in {sub_ceremonies_option(srs.sub_ceremonies)} :
           last' = CodecCall("Option<Transcript>::from",
                             [json |-> srs, options |-> options],
                             Transcript_option_from(options))
    /\ UNCHANGED <<before, srs, prev, secrets, update_proofs>>

ConvertTranscript ==
    /\ last = NoCall
    /\ \E options \in {sub_ceremonies_option(srs.sub_ceremonies)} :
           last' = CodecCall("Transcript::from",
                             [json |-> srs, options |-> options],
                             Transcript_from(options))
    /\ UNCHANGED <<before, srs, prev, secrets, update_proofs>>

ConvertContribution ==
    /\ last = NoCall
    /\ \E options \in {sub_ceremonies_option(srs.sub_ceremonies)} :
           last' = CodecCall("Contribution::from",
                             [json |-> [contributions |-> srs.sub_ceremonies],
                              options |-> options],
                             Contribution_from(options))
    /\ UNCHANGED <<before, srs, prev, secrets, update_proofs>>

NextJson ==
    \/ TamperAny
    \/ ConvertTranscriptOption
    \/ ConvertTranscript
    \/ ConvertContribution
    \/ Return

SpecJson == InitJson /\ [][NextJson]_vars

\* The verification functions called on a ceremony.  `before` is the
\* starting SRS, `srs` the current one, `update_proofs` the proofs so far,
\* `last` the call in progress and `prev` the call that returned before it.
\* Every verification function takes its SRSs, proofs and chain by shared
\* reference and the challenge by value.
InitPure ==
    /\ before = new(MaxG1, MaxG2).srs
    /\ srs = before
    /\ prev = NoCall
    /\ secrets = <<>>
    /\ update_proofs = <<>>
    /\ last = NoCall

PureContribute(tau) ==
    /\ last = NoCall
    /\ Len(secrets) < MaxLinks
    /\ srs' = update(srs, tau).srs
    /\ update_proofs' = Append(update_proofs, update(srs, tau).proof)
    /\ secrets' = Append(secrets, tau)
    /\ UNCHANGED <<before, prev, last>>

\* Mutant: the last proof is taken out of the list it is read from.
PureVerifyUpdatesPop(r) ==
    /\ last = NoCall
    /\ last' = CodecCall("verify_updates",
                         [before |-> before, after |-> srs,
                          proofs |-> update_proofs, random_element |-> r],
                         verify_updates(before, srs, update_proofs, r))
    /\ update_proofs' = SubSeq(update_proofs, 1, Len(update_proofs) - 1)
    /\ UNCHANGED <<before, srs, prev, secrets>>

PureVerifyUpdates(r) ==
    /\ last = NoCall
    /\ last' = CodecCall("verify_updates",
                         [before |-> before, after |-> srs,
                          proofs |-> update_proofs, random_element |-> r],
                         verify_updates(before, srs, update_proofs, r))
    /\ UNCHANGED <<before, srs, prev, secrets, update_proofs>>

PureVerifyUpdate(k, r) ==
    /\ last = NoCall
    /\ k \in 1 .. Len(update_proofs)
    /\ last' = CodecCall("verify_update",
                         [before |-> before, after |-> srs,
                          proofs |-> <<update_proofs[k]>>, random_element |-> r],
                         verify_update(before, srs, update_proofs[k], r))
    /\ UNCHANGED <<before, srs, prev, secrets, update_proofs>>

PureStructureCheckOpt(r) ==
    /\ last = NoCall
    /\ last' = CodecCall("structure_check_opt",
                         [after |-> srs, random_element |-> r],
                         Ok(structure_check_opt(srs, r)))
    /\ UNCHANGED <<before, srs, prev, secrets, update_proofs>>

PureStructureCheck ==
    /\ last = NoCall
    /\ last' = CodecCall("structure_check", [after |-> srs],
                         Ok(structure_check(srs)))
    /\ UNCHANGED <<before, srs, prev, secrets, update_proofs>>

PureSubgroupCheck ==
    /\ last = NoCall
    /\ last' = CodecCall("subgroup_check", [after |-> srs],
                         Ok(subgroup_check(srs)))
    /\ UNCHANGED <<before, srs, prev, secrets, update_proofs>>

PureChainVerify ==
    /\ last = NoCall
    /\ LET chain == extend_all(starting_from(before.tau_g1[2]), update_proofs)
       IN  last' = CodecCall("SharedSecretChain::verify", [chain |-> chain],
                             Ok(chain_verify(chain)))
    /\ UNCHANGED <<before, srs, prev, secrets, update_proofs>>

PureReturn ==
    /\ last # NoCall
    /\ prev' = last
    /\ last' = NoCall
    /\ UNCHANGED <<before, srs, secrets, update_proofs>>

NextPure ==
    \/ \E tau \in Fr : PureContribute(tau)
    \/ \E r \in ForgedChallenges : PureVerifyUpdates(r)
    \/ \E k \in 1 .. MaxLinks, r \in ForgedChallenges : PureVerifyUpdate(k, r)
    \/ \E r \in ForgedChallenges : PureStructureCheckOpt(r)
    \/ PureStructureCheck
    \/ PureSubgroupCheck
    \/ PureChainVerify
    \/ PureReturn

SpecPure == InitPure /\ [][NextPure]_vars

\* ------------------------------------------------------- claims
\* Every secret used so far is neither 0 nor 1.
HonestSecrets == \A k \in 1 .. Len(secrets) : secrets[k] \notin {0, 1}

\* The product of the secrets s[1] .. s[k].
RECURSIVE product(_, _)
product(s, k) == IF k = 0 THEN 1 ELSE fr_mul(product(s, k - 1), s[k])

LastSecret == secrets[Len(secrets)]

\* The verifier has just called verify_updates with the proofs in ceremony order.
VerifiedInOrder ==
    /\ last.op = "verify_updates"
    /\ last.proofs # <<>>
    /\ last.sigma = IdPerm(Len(update_proofs))

\* C1 (chain verification): after L >= 1 contributions to a fresh SRS with
\* secrets that are all nonzero and not one, verify_updates(fresh, final,
\* proofs, r) returns true for every challenge r # 0.
C1_ChainVerification ==
    (VerifiedInOrder /\ HonestSecrets /\ last.r # 0) => last.res = Ok(TRUE)

C1_Witness ==
    /\ VerifiedInOrder /\ HonestSecrets /\ last.r # 0
    /\ Len(secrets) = 3
    /\ Len(srs.tau_g1) = 3
    /\ last.res = Ok(TRUE)

\* C2 (zero rejection): a fresh SRS updated with the secret 0 has the identity
\* as its degree-1 element, and verify_update(fresh, updated, proof, r) is
\* false for every r.
C2_ZeroRejection ==
    (last.op = "verify_update" /\ Len(secrets) = 1 /\ secrets[1] = 0)
        => /\ last.res = Ok(FALSE)
           /\ is_zero(srs.tau_g1[2])

C2_Witness ==
    /\ last.op = "verify_update" /\ Len(secrets) = 1 /\ secrets[1] = 0
    /\ prev = before
    /\ last.r # 0
    /\ last.res = Ok(FALSE)

\* The degree-1 points the ceremony went through, the fresh one first.
AccumulatedPoints ==
    <<before.tau_g1[2]>> \o [k \in 1 .. Len(update_proofs) |->
                               update_proofs[k].new_accumulated_point]

DistinctAccumulatedPoints ==
    \A i, j \in 1 .. Len(AccumulatedPoints) :
        AccumulatedPoints[i] = AccumulatedPoints[j] => i = j

VerifiedPermuted ==
    /\ last.op = "verify_updates"
    /\ last.proofs # <<>>
    /\ last.sigma # IdPerm(Len(update_proofs))

C4_UnchangedGenerator ==
    /\ srs.tau_g1[1] = G1Gen
    /\ srs.tau_g2[1] = G2Gen
    /\ Len(srs.tau_g1) = Len(before.tau_g1)
    /\ Len(srs.tau_g2) = Len(before.tau_g2)

C4_Witness ==
    /\ Len(secrets) = 3
    /\ \E k \in 1 .. 3 : secrets[k] = 0
    /\ \E k \in 1 .. 3 : secrets[k] = 1
    /\ \E k \in 1 .. 3 : secrets[k] \notin {0, 1}
    /\ srs.tau_g1[1] = G1Gen

\* Each element of v is tau^i times the element of w at the same index i.
PowersApplied(v, w, tau) ==
    /\ Len(v) = Len(w)
    /\ \A i \in 1 .. Len(v) : v[i] = wnaf_mul(w[i], fr_pow(tau, i - 1))

\* C5 (power structure): an update with tau multiplies the element at every
\* index i of both vectors by tau^i, whatever the sizes; from fresh the
\* result is tau^i times the generator; and the result is that of
\* Accumulator::update_accumulator.
C5_PowerStructure ==
    Len(secrets) >= 1 =>
        /\ PowersApplied(srs.tau_g1, prev.tau_g1, LastSecret)
        /\ PowersApplied(srs.tau_g2, prev.tau_g2, LastSecret)
        /\ srs = update_accumulator(prev, LastSecret)
        /\ Len(secrets) = 1 =>
              /\ \A i \in 1 .. Len(srs.tau_g1) :
                     srs.tau_g1[i] = wnaf_mul(G1Gen, fr_pow(LastSecret, i - 1))
              /\ \A j \in 1 .. Len(srs.tau_g2) :
                     srs.tau_g2[j] = wnaf_mul(G2Gen, fr_pow(LastSecret, j - 1))

C5_Witness ==
    /\ Len(secrets) = 1
    /\ LastSecret = 2
    /\ Len(srs.tau_g1) = 2
    /\ Len(srs.tau_g2) = 3
    /\ srs.tau_g2 = <<1, 2, 4>>

\* C6 (composition): updates with tau1 and then tau2 (and any further ones)
\* from fresh give, at every index of both vectors, the SRS of the single
\* update of the fresh SRS with the product of the secrets.
C6_Composition ==
    Len(secrets) >= 2 =>
        srs = update(before, product(secrets, Len(secrets))).srs

C6_Witness ==
    /\ Len(secrets) = 2
    /\ secrets = <<2, 4>>
    /\ Len(srs.tau_g1) = 3
    /\ srs.tau_g1 = <<1, 3, 4>>

\* C7 (pairing structure): in every SRS reached from SRS::new by updates,
\* the pairwise structure check holds.
C7_StructureHolds == structure_check(srs)

C7_Witness ==
    /\ Len(secrets) = 2
    /\ HonestSecrets
    /\ Len(srs.tau_g1) = 3
    /\ Len(srs.tau_g2) = 3
    /\ srs # before
    /\ structure_check(srs)

\* C8 (empty proof list): verify_updates with no proof returns false, also
\* when before = after, without aborting; the primitive verify_chain aborts
\* on the empty list.
C8_EmptyProofsRejected ==
    (last.op = "verify_updates" /\ last.proofs = <<>>)
        => /\ last.res = Ok(FALSE)
           /\ verify_chain(before.tau_g1[2], last.proofs) = Abort

C8_Witness ==
    /\ last.op = "verify_updates" /\ last.proofs = <<>>
    /\ srs = before
    /\ last.r # 0
    /\ last.res = Ok(FALSE)

\* C9 (no abort on external input): no top-level operation given externally
\* supplied input aborts; the point decoders return a failure value.
C9_NoAbortOnExternalInput ==
    last.op \in {"deserialize_g1", "verify_updates", "verify_update"}
        => ~last.res.abort

\* C10 (batched and pairwise structure checks agree): on every SRS that
\* passes the pairwise check, the valid ones among them, the batched check
\* returns the same boolean for every challenge r # 0.
C10_BatchedAgreesWithPairwise ==
    (last.op = "structure_check_opt" /\ last.r # 0 /\ structure_check(srs))
        => last.res = Ok(structure_check(srs))

C10_Witness ==
    /\ last.op = "structure_check_opt" /\ last.r = 3
    /\ srs = [tau_g1 |-> <<1, 2, 4>>, tau_g2 |-> <<1, 2>>]
    /\ structure_check(srs)
    /\ last.res = Ok(TRUE)

\* The challenges the batched check accepts on the SRS s.
AcceptedChallenges(s) == {r \in Fr : structure_check_opt(s, r)}

\* C11 (soundness bound of the batched check): on an SRS with vectors of
\* sizes n and m that fails the pairwise check, the batched check returns
\* true for at most max(n, m) - 1 challenges r in Fr.
C11_SoundnessBound ==
    (last.op = "structure_check_opt" /\ last.res = Ok(TRUE) /\ ~structure_check(srs))
        => Cardinality(AcceptedChallenges(srs))
               <= Max(Len(srs.tau_g1), Len(srs.tau_g2)) - 1

C11_Witness ==
    /\ last.op = "structure_check_opt"
    /\ ~structure_check(srs)
    /\ last.res = Ok(TRUE)
    /\ Len(srs.tau_g1) = 3
    /\ Len(srs.tau_g2) = 3
    /\ Cardinality(AcceptedChallenges(srs)) = 1

\* C12 (zero challenge refused): structure_check_opt(0) is false, and
\* verify_updates / verify_update with the challenge 0 return false, also on
\* an honestly produced before, after and proofs.
C12_ZeroChallengeRefused ==
    /\ ~structure_check_opt(srs, 0)
    /\ (last.op \in {"verify_updates", "verify_update"} /\ last.r = 0)
           => last.res = Ok(FALSE)

C12_Witness ==
    /\ VerifiedInOrder /\ HonestSecrets /\ last.r = 0
    /\ Len(secrets) = 2
    /\ last.res = Ok(FALSE)
    /\ \A r \in Fr \ {0} : verify_updates(before, srs, update_proofs, r) = Ok(TRUE)

LastProof == update_proofs[Len(update_proofs)]

\* C13 (secret one): an update with the secret 1 leaves the SRS unchanged, its
\* proof carries the G2 generator and, from fresh, the G1 generator, the chain
\* over that proof verifies, and verify_update accepts the contribution.
C13_SecretOneAccepted ==
    (Len(secrets) >= 1 /\ LastSecret = 1) =>
        /\ srs = prev
        /\ LastProof.commitment_to_secret = G2Gen
        /\ Len(secrets) = 1 => LastProof.new_accumulated_point = G1Gen
        /\ verify_chain(prev.tau_g1[2], <<LastProof>>) = Ok(TRUE)
        /\ (last.op = "verify_update" /\ last.r # 0 /\ ~is_zero(prev.tau_g1[2]))
               => last.res = Ok(TRUE)

C13_Witness ==
    /\ secrets = <<1>>
    /\ Len(srs.tau_g1) = 3
    /\ last.op = "verify_update" /\ last.r # 0
    /\ last.res = Ok(TRUE)

\* C14 (Accumulator variant rejects the secrets 1 and 0): after an update
\* with the secret 1 (or 0), Accumulator::verify_update(before, after, proof)
\* is false, the proof's commitment being the G2 generator (or the identity),
\* which UpdateProof::is_valid rejects.
C14_AccumulatorRejectsOne ==
    (last.op = "Accumulator::verify_update" /\ LastSecret \in {0, 1}) =>
        /\ last.res = Ok(FALSE)
        /\ ~is_valid(LastProof)
        /\ LastSecret = 1 => LastProof.commitment_to_secret = G2Gen

C14_Witness ==
    /\ last.op = "Accumulator::verify_update"
    /\ secrets = <<1>>
    /\ prev = before
    /\ srs = before
    /\ last.res = Ok(FALSE)

\* C15 (SRS serialisation round trip): SRS::deserialise of SRS::serialise(s)
\* with the parameters (n, m) of s returns s, for every SRS s the ceremony
\* reaches from SRS::new(n, m), the secret 0 (identity points) included.
C15_SerialiseRoundTrip ==
    last.op = "serialise_deserialise" => last.res = Some(srs)

C15_Witness ==
    /\ last.op = "serialise_deserialise"
    /\ secrets = <<0>>
    /\ Len(srs.tau_g1) = 3
    /\ last.input.json.g1 = <<<<"0", "x", "8", "7">>, <<"0", "x", "c", "0">>,
                              <<"0", "x", "c", "0">>>>
    /\ last.res = Some(srs)

\* The string has the "0x" prefix.
HasPrefix(chars) == Len(chars) >= 2 /\ SubSeq(chars, 1, 2) = <<"0", "x">>

\* The characters after the prefix are hex digits, two for each of `size` bytes.
IsHexOfSize(chars, size) ==
    /\ Len(chars) = 2 + 2 * size
    /\ \A i \in 3 .. Len(chars) :
           chars[i] \in {HexDigits[k] : k \in 1 .. 16}
                            \cup {UpperHexDigits[k] : k \in 1 .. 6}

Malformed(chars, size) == ~HasPrefix(chars) \/ ~IsHexOfSize(chars, size)

\* C16 (deserialise failures): SRS::deserialise returns absent whenever a hex
\* string lacks the prefix, is not valid hex or has the wrong byte length,
\* or the number of G1 or G2 strings differs from the parameters.
C16_DeserialiseAbsent ==
    LET json == last.input.json
        parameters == last.input.parameters
    IN  (/\ last.op = "deserialise"
         /\ \/ \E i \in 1 .. Len(json.g1) : Malformed(json.g1[i], G1_SERIALISED_SIZE)
            \/ \E i \in 1 .. Len(json.g2) : Malformed(json.g2[i], G2_SERIALISED_SIZE)
            \/ Len(json.g1) # parameters.num_g1_elements_needed
            \/ Len(json.g2) # parameters.num_g2_elements_needed)
        => last.res = None

\* The x bits of an encoding: the first byte without its flag bits, and for
\* G2 the second byte too.
XBits(bytes) == [i \in 1 .. Len(bytes) |-> IF i = 1 THEN bytes[1] % 32 ELSE bytes[i]]

\* C17 (decoding failures): the point decoders return a failure, not a point,
\* when an x coordinate is not below the field modulus, when the infinity
\* flag comes with a nonzero x bit, and when no y satisfies the curve
\* equation for x; an infinity-flagged input with all x bits zero decodes to
\* the identity.
C17_DecodingFailures ==
    LET bytes == last.input
        flags == get_flags(bytes)
        too_large == \E i \in 1 .. Len(bytes) : XBits(bytes)[i] >= FqModulus
        infinity_with_x ==
            flags.is_infinity /\ \E i \in 1 .. Len(bytes) : XBits(bytes)[i] # 0
        no_y == /\ ~too_large
                /\ IF last.op = "deserialize_g1"
                   THEN ~get_point_from_x(XBits(bytes)[1], FALSE).some
                   ELSE ~g2_get_point_from_x(
                             Fp2_new(XBits(bytes)[2], XBits(bytes)[1]), FALSE).some
    IN  last.op \in {"deserialize_g1", "deserialize_g2"} =>
            /\ (too_large \/ infinity_with_x \/ no_y) => last.res = None
            /\ (flags.is_compressed /\ flags.is_infinity /\ ~infinity_with_x) =>
                   last.res = Ok(IF last.op = "deserialize_g1"
                                 THEN G1AffineDefault ELSE G2AffineDefault)

\* C18 (flag encoding): the first byte of a serialised point has bit 7 set,
\* bit 6 set iff the point is the identity and bit 5 set iff it is not the
\* identity and y is larger than -y; the identity serialises to 0xC0 followed
\* by zero bytes; and deserialising the serialised point gives the point back.
C18_FlagEncoding ==
    LET p == last.input
        bytes == last.res.val
        g1 == last.op = "serialize_g1"
        y_largest == IF g1 THEN p.y > fq_neg(p.y) ELSE fq2_lt(fq2_neg(p.y), p.y)
    IN  last.op \in {"serialize_g1", "serialize_g2"} =>
            /\ Len(bytes) = IF g1 THEN G1_SERIALISED_SIZE ELSE G2_SERIALISED_SIZE
            /\ (bytes[1] \div 128) % 2 = 1
            /\ (bytes[1] \div 64) % 2 = 1 <=> p.infinity
            /\ (bytes[1] \div 32) % 2 = 1 <=> (~p.infinity /\ y_largest)
            /\ p.infinity => /\ bytes[1] = 192
                             /\ \A i \in 2 .. Len(bytes) : bytes[i] = 0
            /\ (IF g1 THEN deserialize_g1(bytes) ELSE deserialize_g2(bytes)) = Ok(p)

C18_Witness ==
    /\ last.op = "serialize_g2"
    /\ last.input = G2Table[4]
    /\ last.res = Ok(<<163, 5>>)
    /\ deserialize_g2(last.res.val) = Ok(last.input)

\* The characters after the prefix are hex digits, two for each byte.
IsHex(chars) ==
    /\ Len(chars) % 2 = 0
    /\ \A i \in 3 .. Len(chars) :
           chars[i] \in {HexDigits[k] : k \in 1 .. 16}
                            \cup {UpperHexDigits[k] : k \in 1 .. 6}

\* The number that the hex digits after the prefix write.
HexValue(chars) ==
    LET value[k \in 0 .. Len(chars) - 2] ==
            IF k = 0 THEN 0 ELSE 16 * value[k - 1] + hex_val(chars[k + 2])
    IN  value[Len(chars) - 2]

WellFormedHex(chars) == HasPrefix(chars) /\ IsHex(chars)

\* C19 (transcript update): update_transcript returns absent if an SRS has
\* not the fixed size of its sub-ceremony or a secret lacks the prefix or is
\* not valid hex, and with it no transcript; otherwise it returns the
\* transcript in which the SRS of every slot is updated with the slot's
\* secret reduced modulo the group order, zero and out-of-range values
\* included, and the four proofs in the order of the slots.
C19_UpdateTranscript ==
    LET transcript == last.input.transcript
        tau(i) == HexValue(last.input.secrets[i]) % FrModulus
        wrong_size ==
            \E i \in 1 .. NUM_CEREMONIES :
                \/ Len(transcript.sub_ceremonies[i].tau_g1)
                       # CEREMONIES[i].num_g1_elements_needed
                \/ Len(transcript.sub_ceremonies[i].tau_g2)
                       # CEREMONIES[i].num_g2_elements_needed
        bad_secret ==
            \E i \in 1 .. NUM_CEREMONIES : ~WellFormedHex(last.input.secrets[i])
    IN  last.op = "update_transcript" =>
            IF wrong_size \/ bad_secret
            THEN last.res = None /\ srs = transcript
            ELSE /\ last.res.some
                 /\ Len(last.res.val.update_proofs) = NUM_CEREMONIES
                 /\ \A i \in 1 .. NUM_CEREMONIES :
                        LET old == transcript.sub_ceremonies[i]
                            updated == last.res.val.transcript.sub_ceremonies[i]
                            proof == last.res.val.update_proofs[i]
                        IN  /\ PowersApplied(updated.tau_g1, old.tau_g1, tau(i))
                            /\ PowersApplied(updated.tau_g2, old.tau_g2, tau(i))
                            /\ proof.commitment_to_secret = wnaf_mul(G2Gen, tau(i))
                            /\ proof.new_accumulated_point = updated.tau_g1[2]

C19_Witness ==
    /\ last.op = "update_transcript"
    /\ last.input.transcript = Transcript_default
    /\ last.input.secrets = <<<<"0", "x">>, <<"0", "x", "0", "2">>,
                              <<"0", "x", "0", "7">>,
                              <<"0", "x", "0", "1", "0", "3">>>>
    /\ last.res.some
    /\ [i \in 1 .. NUM_CEREMONIES |->
           last.res.val.transcript.sub_ceremonies[i].tau_g1[2]] = <<0, 2, 2, 4>>

\* C20 (transcript verification): transcript_verify_update returns true
\* exactly when in every slot the challenge has the prefix and is valid hex
\* and SRS::verify_update accepts the slot's old SRS, new SRS and proof with
\* the challenge reduced modulo the group order; one failing slot makes the
\* result false, and a slot is checked against its own proof and challenge
\* only.
C20_TranscriptVerifyUpdate ==
    LET in == last.input
        slot_verifies(i) ==
            /\ WellFormedHex(in.random_hex_elements[i])
            /\ verify_update(in.old.sub_ceremonies[i], in.new.sub_ceremonies[i],
                             in.proofs[i],
                             HexValue(in.random_hex_elements[i]) % FrModulus)
                   = Ok(TRUE)
    IN  last.op = "transcript_verify_update" =>
            last.res = Ok(\A i \in 1 .. NUM_CEREMONIES : slot_verifies(i))

C20_Witness ==
    /\ last.op = "transcript_verify_update"
    /\ last.res = Ok(TRUE)
    /\ last.input.proofs = update_proofs
    /\ \E i, j \in 1 .. NUM_CEREMONIES : update_proofs[i] # update_proofs[j]

\* The element is a multiple of the generator of its group.
InSubgroup(element) == element \in Fr

LinkAdded ==
    /\ Len(srs.witnesses) = Len(prev.witnesses) + 1
    /\ prev = remove_last(srs)

LastPoint(chain) == chain.accumulated_points[Len(chain.accumulated_points)]

\* The pushed witness is not the commitment of a secret that takes the
\* previous point to the pushed point.
WrongWitness ==
    \E s \in Fr :
        /\ LastPoint(srs) = wnaf_mul(LastPoint(prev), s)
        /\ srs.witnesses[Len(srs.witnesses)] # to_public(s)

\* The pushed point is not the previous point times the secret that the
\* pushed witness commits to.
WrongPoint ==
    \E s \in Fr :
        /\ srs.witnesses[Len(srs.witnesses)] = to_public(s)
        /\ LastPoint(srs) # wnaf_mul(LastPoint(prev), s)

\* The chain holds one more point than witnesses, and a recorded call of
\* verify returned whether every consecutive pair satisfies the pairing
\* equation with its witness.
ChainShapeAndVerdict ==
    /\ Len(srs.accumulated_points) = Len(srs.witnesses) + 1
    /\ last.op = "SharedSecretChain::verify" =>
           last.res = Ok(\A k \in 1 .. Len(last.input.witnesses) :
                             pairing(last.input.accumulated_points[k + 1], G2Gen)
                                 = pairing(last.input.accumulated_points[k],
                                           last.input.witnesses[k]))

\* C22 as stated (shared secret chain): the shape and the verdict as above,
\* and a valid chain extended with a wrong witness or with a wrong
\* accumulated point no longer verifies, and verifies again once that link
\* is removed.
C22_WrongLinkRejected ==
    /\ ChainShapeAndVerdict
    /\ (LinkAdded /\ chain_verify(prev) /\ (WrongWitness \/ WrongPoint)) =>
           /\ ~chain_verify(srs)
           /\ chain_verify(remove_last(srs))

\* C22 amended (shared secret chain): as C22, but a wrong witness is only
\* noticed when the last accumulated point of the valid chain is not the
\* identity; a wrong accumulated point is always noticed.
C22_WrongLinkRejectedUnlessIdentity ==
    /\ ChainShapeAndVerdict
    /\ (/\ LinkAdded
        /\ chain_verify(prev)
        /\ \/ WrongWitness /\ LastPoint(prev) # Identity
           \/ WrongPoint) =>
           /\ ~chain_verify(srs)
           /\ chain_verify(remove_last(srs))

\* A valid chain of one link, a second link with the right point and a wrong
\* witness, and the call of verify that refuses it.
C22_Witness ==
    /\ LinkAdded
    /\ Len(prev.witnesses) = 1
    /\ chain_verify(prev)
    /\ LastPoint(prev) # Identity
    /\ WrongWitness
    /\ last.op = "SharedSecretChain::verify"
    /\ last.input = srs
    /\ last.res = Ok(FALSE)

\* The cell was written and has not been overwritten since.
HoldsSecret(cell) == cell.val # <<>> /\ ~cell.wiped

\* C23 (secret zeroization): once update has returned or has unwound by a
\* panic, no cell written during the update (the key, the copy passed to
\* update_srs, the vector of the powers, the integer of to_public) still
\* holds the secret or a power of it.
C23_SecretZeroized ==
    last.op \in {"returned", "unwound"} =>
        /\ ~HoldsSecret(prev.key)
        /\ ~HoldsSecret(prev.arg)
        /\ ~HoldsSecret(prev.powers)
        /\ ~HoldsSecret(prev.repr)

\* C24 (parallel update): whatever the interleaving of the workers, every
\* element is at any time either untouched or what the sequential update
\* makes of it, whoever else has written meanwhile, and when both loops have
\* ended the SRS is the one the sequential update_srs produces.
C24_ParallelDeterministic ==
    LET sequential == update_srs(before, secrets[1])
    IN  /\ \A i \in 1 .. Len(srs.tau_g1) :
               srs.tau_g1[i] \in {before.tau_g1[i], sequential.tau_g1[i]}
        /\ \A i \in 1 .. Len(srs.tau_g2) :
               srs.tau_g2[i] \in {before.tau_g2[i], sequential.tau_g2[i]}
        /\ prev.loop = "done" => srs = sequential

\* Both loops have ended, the workers of the second one having written in
\* descending order of the elements, on an SRS that the update changes.
C24_Witness ==
    /\ prev.loop = "done"
    /\ Len(prev.order) >= 2
    /\ \A k \in 1 .. Len(prev.order) - 1 : prev.order[k] > prev.order[k + 1]
    /\ secrets[1] \notin {0, 1}
    /\ srs # before
    /\ srs = update_srs(before, secrets[1])

\* C25 (at least two elements): SRS::new and SRS::from_vectors return absent
\* when a vector would hold fewer than 2 elements, and every SRS that
\* SRS::deserialise returns holds at least 2 elements in tau_g1 and in
\* tau_g2, so that no later operation indexes past the end.
C25_AtLeastTwoElements ==
    /\ \A n \in 0 .. MaxG1, m \in 0 .. MaxG2 :
           /\ new(n, m).some <=> (n >= 2 /\ m >= 2)
           /\ new(n, m).some =>
                  /\ Len(new(n, m).srs.tau_g1) >= 2
                  /\ Len(new(n, m).srs.tau_g2) >= 2
    /\ (last.op = "deserialise" /\ last.res.some) =>
           /\ Len(last.res.val.tau_g1) >= 2
           /\ Len(last.res.val.tau_g2) >= 2

\* verify_updates has accepted what it was sent.
Accepted == last.op = "verify_updates" /\ last.res = Ok(TRUE)

\* C26 (no identity in an accepted chain): when verify_updates returns true,
\* no proof of the list has the identity as its public key and none has the
\* identity as its accumulated point.
C26_NoIdentityInAcceptedProofs ==
    Accepted =>
        \A k \in 1 .. Len(last.input.proofs) :
            /\ last.input.proofs[k].commitment_to_secret # Identity
            /\ last.input.proofs[k].new_accumulated_point # Identity

\* Two proofs are accepted on a starting SRS that is not the fresh one.
C26_Witness ==
    /\ Accepted
    /\ Len(last.input.proofs) = 2
    /\ last.input.before.tau_g1[2] # G1Gen
    /\ last.input.proofs[1].commitment_to_secret
           # last.input.proofs[2].commitment_to_secret

\* The product of the discrete logarithms of the public keys of the proofs.
SecretProduct(proofs) ==
    LET upto[k \in 0 .. Len(proofs)] ==
            IF k = 0 THEN 1
            ELSE fr_mul(upto[k - 1], proofs[k].commitment_to_secret)
    IN  upto[Len(proofs)]

\* C27 (the ending point): when verify_updates returns true, the degree-1 G1
\* element of the ending SRS is the last proof's point and is the starting
\* SRS's degree-1 element times the product of the secrets behind the public
\* keys; and verify_updates returns false whenever the ending SRS's degree-1
\* element differs from the last proof's point.
C27_EndingPoint ==
    LET in == last.input
        last_Q == in.proofs[Len(in.proofs)].new_accumulated_point
    IN  last.op = "verify_updates" =>
            /\ last.res = Ok(TRUE) =>
                   /\ in.after.tau_g1[2] = last_Q
                   /\ in.after.tau_g1[2]
                          = wnaf_mul(in.before.tau_g1[2], SecretProduct(in.proofs))
            /\ in.after.tau_g1[2] # last_Q => last.res = Ok(FALSE)

\* Two proofs are accepted whose secrets multiply to something other than
\* either of them.
C27_Witness ==
    /\ Accepted
    /\ Len(last.input.proofs) = 2
    /\ SecretProduct(last.input.proofs)
           \notin {1, last.input.proofs[1].commitment_to_secret,
                   last.input.proofs[2].commitment_to_secret}
    /\ last.input.after.tau_g1[2] # last.input.before.tau_g1[2]

\* C28 (accepted SRS is canonical): every ending SRS that verify_updates
\* accepts, with a nonzero challenge, starts with the G1 generator and the G2
\* generator and holds the identity at no index of either vector.
C28_AcceptedSrsCanonical ==
    (Accepted /\ last.input.random_element # 0) =>
        /\ last.input.after.tau_g1[1] = G1Gen
        /\ last.input.after.tau_g2[1] = G2Gen
        /\ \A i \in 1 .. Len(last.input.after.tau_g1) :
               last.input.after.tau_g1[i] # Identity
        /\ \A i \in 1 .. Len(last.input.after.tau_g2) :
               last.input.after.tau_g2[i] # Identity

\* A sub-ceremony of the converted JSON does not decode, and no decoder
\* panics.
SlotFailsToDecode ==
    /\ \E i \in 1 .. NUM_CEREMONIES : last.input.options[i] = None
    /\ \A i \in 1 .. NUM_CEREMONIES : last.input.options[i] # Panic

\* C29 (failed conversion is absent): converting a TranscriptJSON or a
\* ContributionJSON one of whose four sub-ceremonies fails to decode gives an
\* absent result, never a transcript or contribution that differs from the
\* encoded data.
C29_FailedConversionAbsent ==
    (/\ last.op \in {"Option<Transcript>::from", "Transcript::from",
                     "Contribution::from"}
     /\ SlotFailsToDecode)
        => last.res = None

VerificationOps ==
    {"verify_updates", "verify_update", "structure_check_opt", "structure_check",
     "subgroup_check", "SharedSecretChain::verify"}

\* The step is a call of a verification function.
VerificationStep == last = NoCall /\ last'.op \in VerificationOps

\* The call of this step has the arguments of the call that returned before it.
RepeatedCall == prev.op = last'.op /\ prev.input = last'.input

====
